---- MODULE Spec2Model ----
(***************************************************************************)
(* Model of python/paddle/distributed/passes/pass_utils.py: the graph      *)
(* slicer (prune_program, split_program) and the cross-stage liveness      *)
(* scheduler (set_skip_gc_vars), the re-materializer (_create_program) and *)
(* the role partition with its synchronization passes                     *)
(* (_program_for_fthenb_and_1f1b, _insert_sync_for_fthenb_1f1b,            *)
(* _overlap_send_recv), the operator usage record (OpInOutInfo) and        *)
(* the event links between operators (_add_event_dependency).              *)
(*                                                                         *)
(* A program is a record [blocks]: its blocks in index order, block 0      *)
(* (sequence position 1) being the global block.  A block is a record      *)
(* [parent_idx, vars, ops]: vars is the set of its declarations, records   *)
(* [name, persistable]; ops is its operator sequence.  An operator is a    *)
(* record [type, inputs, outputs]; inputs and outputs are the slots in     *)
(* order, records [slot, args] with args the slot's variable names.        *)
(* Python lists are sequences; indices are 0-based as in the source        *)
(* (sequence position = index + 1).  An OrderedDict whose values are all   *)
(* True is the sequence of its keys.                                       *)
(***************************************************************************)
EXTENDS Integers, Sequences, FiniteSets

VARIABLES
  program,            \* the program a caller passes to the slicer
  call,               \* the slicer call made: function and arguments
  ret,                \* what the slicer call returned or raised
  num_micro_batches,  \* argument of set_skip_gc_vars
  sub_programs,       \* argument of set_skip_gc_vars, one program per job type
  jobs,               \* argument of set_skip_gc_vars, the job instances
  gc_ret,             \* outcome of the set_skip_gc_vars call
  src_program,        \* program whose operators _create_program copies
  dst_block,          \* destination block of _create_program
  copy_log,           \* the _create_program calls made, in order
  pipe_program,       \* program passed to _program_for_fthenb_and_1f1b
  pipe_call,          \* the call made: enable_send_recv_overlap and flags
  pipe_ret,           \* what the call returned or raised
  overlap_calls,      \* number of _overlap_send_recv calls made on pipe_program
  op_info,            \* an OpInOutInfo object
  info_op,            \* the operator op_info.build_info was called with
  dist_attrs,         \* dist_attr of the operators _add_event_dependency links
  event_call          \* the last _add_event_dependency call: recorder, waiter

vars == <<program, call, ret, num_micro_batches, sub_programs, jobs, gc_ret,
          src_program, dst_block, copy_log, pipe_program, pipe_call, pipe_ret,
          overlap_calls, op_info, info_op, dist_attrs, event_call>>

slicer_vars == <<program, call, ret>>

gc_vars == <<num_micro_batches, sub_programs, jobs, gc_ret>>

copy_vars == <<src_program, dst_block, copy_log>>

pipe_vars == <<pipe_program, pipe_call, pipe_ret>>

info_vars == <<op_info, info_op>>

event_vars == <<dist_attrs, event_call>>

----------------------------------------------------------------------------
(* Bounds of the slicer model. *)

MaxOps == 3

MaxBounds == 2

(* Operator descriptions the programs are built from. *)
Slot(slot, args) == [slot |-> slot, args |-> args]

Op(type, inputs, outputs) ==
  [type |-> type, inputs |-> inputs, outputs |-> outputs]

OpDescs ==
  { Op("fill",  <<>>,                  <<Slot("Out", <<"x">>)>>),
    Op("relu",  <<Slot("X", <<"x">>)>>, <<Slot("Out", <<"y">>)>>),
    Op("incr",  <<Slot("X", <<"x">>)>>, <<Slot("Out", <<"x">>)>>),
    Op("scale", <<Slot("X", <<"y">>)>>, <<Slot("Out", <<"y">>)>>),
    Op("add",   <<Slot("X", <<"y">>), Slot("Y", <<"x">>)>>,
                <<Slot("Out", <<"z">>), Slot("XShape", <<"@EMPTY@">>)>>) }

Var(name, persistable) == [name |-> name, persistable |-> persistable]

(* Declarations of the global block: "@EMPTY@" is never declared, "u" is   *)
(* declared and referenced by no operator.                                 *)
DeclaredVars ==
  { Var("x", FALSE), Var("y", FALSE), Var("z", FALSE), Var("u", TRUE) }

Block(parent_idx, decls, ops) ==
  [parent_idx |-> parent_idx, vars |-> decls, ops |-> ops]

OpLists == UNION { [1..n -> OpDescs] : n \in 0..MaxOps }

(* A program with a sub-block: the global block runs the sub-block through *)
(* a conditional_block operator on x, the sub-block computes y from x,     *)
(* both declared in the global block.                                      *)
NestedProgram ==
  [blocks |->
     <<Block(-1, DeclaredVars,
             <<Op("fill", <<>>, <<Slot("Out", <<"x">>)>>),
               Op("conditional_block", <<Slot("Cond", <<"x">>)>>,
                  <<Slot("Scope", <<"x">>)>>)>>),
       Block(0, {},
             <<Op("relu", <<Slot("X", <<"x">>)>>, <<Slot("Out", <<"y">>)>>)>>)>>]

Programs ==
  { [blocks |-> <<Block(-1, DeclaredVars, o)>>] : o \in OpLists }
    \cup {NestedProgram}

Indices == (0 - MaxOps)..MaxOps

IndexLists == UNION { [1..n -> Indices] : n \in 0..MaxBounds }

----------------------------------------------------------------------------
(* Python helpers *)

Contains(seq, x) == \E i \in 1..Len(seq) : seq[i] = x

Range(seq) == { seq[i] : i \in 1..Len(seq) }

(* program.global_block() *)
global_block(p) == p.blocks[1]

(* op.input_arg_names, op.output_arg_names: the slots' names in slot order *)
RECURSIVE arg_names(_)
arg_names(slots) ==
  IF slots = <<>> THEN <<>> ELSE Head(slots).args \o arg_names(Tail(slots))

input_arg_names(op) == arg_names(op.inputs)

output_arg_names(op) == arg_names(op.outputs)

RECURSIVE list_to_ordered_dict(_, _)
list_to_ordered_dict(list_obj, ordered_dict) ==
  IF list_obj = <<>> THEN ordered_dict
  ELSE list_to_ordered_dict(
         Tail(list_obj),
         IF Contains(ordered_dict, Head(list_obj)) THEN ordered_dict
         ELSE Append(ordered_dict, Head(list_obj)))

(* Mutation: a name that was read is not marked as visited.                *)
RECURSIVE visit_inputs_no_mark(_, _)
visit_inputs_no_mark(names, st) ==
  IF names = <<>> THEN st
  ELSE visit_inputs_no_mark(
         Tail(names),
         IF Head(names) \in st.visited_vars THEN st
         ELSE [input_vars   |-> Append(st.input_vars, Head(names)),
               visited_vars |-> st.visited_vars])

(* for in_var_name in op.input_arg_names: append when not visited *)
RECURSIVE visit_inputs(_, _)
visit_inputs(names, st) ==
  IF names = <<>> THEN st
  ELSE visit_inputs(
         Tail(names),
         IF Head(names) \in st.visited_vars THEN st
         ELSE [input_vars   |-> Append(st.input_vars, Head(names)),
               visited_vars |-> st.visited_vars \cup {Head(names)}])

RECURSIVE scan_inputs(_, _)
scan_inputs(ops, st) ==
  IF ops = <<>> THEN st
  ELSE LET afterIn == visit_inputs(input_arg_names(Head(ops)), st)
       IN scan_inputs(
            Tail(ops),
            [input_vars   |-> afterIn.input_vars,
             visited_vars |-> afterIn.visited_vars
                               \cup Range(output_arg_names(Head(ops)))])

get_inputs_of_program(p) ==
  scan_inputs(global_block(p).ops,
              [input_vars |-> <<>>, visited_vars |-> {}]).input_vars

(* Mutation: only names that some operator seen so far reads are kept.     *)
RECURSIVE scan_outputs_read_only(_, _)
scan_outputs_read_only(ops, output_vars) ==
  IF ops = <<>> THEN output_vars
  ELSE scan_outputs_read_only(
         Tail(ops),
         list_to_ordered_dict(
           SelectSeq(output_arg_names(Head(ops)),
                     LAMBDA n : Contains(input_arg_names(Head(ops)), n)),
           output_vars))

RECURSIVE scan_outputs(_, _)
scan_outputs(ops, output_vars) ==
  IF ops = <<>> THEN output_vars
  ELSE scan_outputs(Tail(ops),
                    list_to_ordered_dict(output_arg_names(Head(ops)), output_vars))

get_outputs_of_program(p) == scan_outputs(global_block(p).ops, <<>>)

----------------------------------------------------------------------------
(* prune_program *)

(* block._remove_op(idx): idx is 0-based *)
remove_op(ops, idx) == SubSeq(ops, 1, idx) \o SubSeq(ops, idx + 2, Len(ops))

(* Mutation: the loop stops one index early, leaving the operator at the   *)
(* bound in place.                                                         *)
RECURSIVE remove_ops_down_early(_, _, _)
remove_ops_down_early(ops, idx, stop) ==
  IF idx <= stop + 1 THEN ops
  ELSE remove_ops_down_early(remove_op(ops, idx), idx - 1, stop)

(* for idx in range(first, stop, -1): _remove_op(idx) *)
RECURSIVE remove_ops_down(_, _, _)
remove_ops_down(ops, idx, stop) ==
  IF idx <= stop THEN ops
  ELSE remove_ops_down(remove_op(ops, idx), idx - 1, stop)

(* if idx < 0: idx += op_num *)
resolve_index(idx, op_num) == IF idx < 0 THEN idx + op_num ELSE idx

(* Mutation: the end bound is checked like the start bound, against        *)
(* op_num exclusive.                                                       *)
prune_asserts_end_exclusive(start_op_idx, end_op_idx, op_num) ==
  /\ start_op_idx >= 0 /\ start_op_idx < op_num
  /\ end_op_idx >= 0 /\ end_op_idx < op_num
  /\ start_op_idx < end_op_idx

prune_asserts(start_op_idx, end_op_idx, op_num) ==
  /\ start_op_idx >= 0 /\ start_op_idx < op_num
  /\ end_op_idx >= 0 /\ end_op_idx <= op_num
  /\ start_op_idx < end_op_idx

(* Mutation: only the input names of the retained operators are kept.      *)
valid_vars_of_inputs_only(ops) ==
  UNION { Range(input_arg_names(ops[i])) : i \in 1..Len(ops) }

valid_vars_of(ops) ==
  UNION { Range(input_arg_names(ops[i])) \cup Range(output_arg_names(ops[i])) :
            i \in 1..Len(ops) }

NoProgram == [blocks |-> <<>>]

(* Mutation: no clone, the removals act on the caller's program.           *)
pruned_object_is_argument == "argument"

(* program = program.clone(): from here on the name program refers to the  *)
(* clone, a structural copy that shares nothing with the argument.         *)
pruned_object == "clone"

(* The value holds the program returned and, as source, the caller's       *)
(* program object as the call leaves it.                                   *)
prune_program(p, start_arg, end_arg) ==
  LET op_num       == Len(global_block(p).ops)
      start_op_idx == resolve_index(start_arg, op_num)
      end_op_idx   == resolve_index(end_arg, op_num)
  IN IF ~prune_asserts(start_op_idx, end_op_idx, op_num)
     THEN [status |-> "AssertionError", program |-> NoProgram, source |-> p]
     ELSE LET tailCut  == remove_ops_down(global_block(p).ops, op_num - 1,
                                          end_op_idx - 1)
              kept     == remove_ops_down(tailCut, start_op_idx - 1, -1)
              valid_vars     == valid_vars_of(kept)
              vars_to_remove == { v \in global_block(p).vars :
                                    v.name \notin valid_vars }
              pruned   ==
                [blocks |->
                   [p.blocks EXCEPT
                      ![1] = [@ EXCEPT !.ops  = kept,
                                       !.vars = @ \ vars_to_remove]]]
              objects  == [[argument |-> p, clone |-> p]
                             EXCEPT ![pruned_object] = pruned]
          IN [status  |-> "ok",
              program |-> objects[pruned_object],
              source  |-> objects.argument]

----------------------------------------------------------------------------
(* split_program *)

(* op_indices = [idx if idx >= 0 else idx + op_num for idx in op_indices] *)
resolve_indices(op_indices, op_num) ==
  [i \in 1..Len(op_indices) |->
     IF op_indices[i] >= 0 THEN op_indices[i] ELSE op_indices[i] + op_num]

(* Mutation: op_num is never appended.                                     *)
add_ends_no_tail(op_indices, op_num) ==
  IF op_indices[1] # 0 THEN <<0>> \o op_indices ELSE op_indices

add_ends(op_indices, op_num) ==
  LET withFirst == IF op_indices[1] # 0 THEN <<0>> \o op_indices ELSE op_indices
  IN IF withFirst[Len(withFirst)] # op_num THEN Append(withFirst, op_num)
     ELSE withFirst

(* Mutation: equal neighbours pass the check.                              *)
strictly_sorted_weak(op_indices) ==
  \A idx \in 1..(Len(op_indices) - 1) : op_indices[idx] <= op_indices[idx + 1]

strictly_sorted(op_indices) ==
  \A idx \in 1..(Len(op_indices) - 1) : op_indices[idx] < op_indices[idx + 1]

(* The prune loop: stops at the first prune_program that raises. *)
RECURSIVE build_splits(_, _, _, _)
build_splits(p, op_indices, idx, splitted_programs) ==
  IF idx > Len(op_indices) - 1
  THEN [status |-> "ok", splitted_programs |-> splitted_programs,
        source |-> p]
  ELSE LET new_split == prune_program(p, op_indices[idx], op_indices[idx + 1])
       IN IF new_split.status # "ok"
          THEN [status |-> new_split.status,
                splitted_programs |-> splitted_programs,
                source |-> new_split.source]
          ELSE build_splits(new_split.source, op_indices, idx + 1,
                            Append(splitted_programs, new_split.program))

(* Mutation: the scan runs upward from 0, finding the first writer.        *)
find_writer_first(output_vars, in_var_name, j) ==
  LET writers == { k \in 0..j : Contains(output_vars[k + 1], in_var_name) }
  IN IF writers = {} THEN -1
     ELSE CHOOSE k \in writers : \A m \in writers : k <= m

(* for j in reversed(range(i)): the largest j < i whose outputs hold the   *)
(* name, or -1; i and j are 0-based.                                       *)
RECURSIVE find_writer(_, _, _)
find_writer(output_vars, in_var_name, j) ==
  IF j < 0 THEN -1
  ELSE IF Contains(output_vars[j + 1], in_var_name) THEN j
  ELSE find_writer(output_vars, in_var_name, j - 1)

(* Mutation: no break, every earlier writer is marked.                     *)
RECURSIVE mark_inputs_all_writers(_, _, _, _)
mark_inputs_all_writers(names, i, output_vars, valid_output_vars) ==
  IF names = <<>> THEN valid_output_vars
  ELSE mark_inputs_all_writers(
         Tail(names), i, output_vars,
         [j \in 1..Len(valid_output_vars) |->
            IF j <= i /\ Contains(output_vars[j], Head(names))
            THEN list_to_ordered_dict(<<Head(names)>>, valid_output_vars[j])
            ELSE valid_output_vars[j]])

RECURSIVE mark_inputs(_, _, _, _)
mark_inputs(names, i, output_vars, valid_output_vars) ==
  IF names = <<>> THEN valid_output_vars
  ELSE LET j == find_writer(output_vars, Head(names), i - 1)
       IN mark_inputs(
            Tail(names), i, output_vars,
            IF j < 0 THEN valid_output_vars
            ELSE [valid_output_vars EXCEPT
                    ![j + 1] = list_to_ordered_dict(<<Head(names)>>, @)])

RECURSIVE mark_valid_outputs(_, _, _, _)
mark_valid_outputs(i, input_vars, output_vars, valid_output_vars) ==
  IF i >= Len(input_vars) THEN valid_output_vars
  ELSE mark_valid_outputs(
         i + 1, input_vars, output_vars,
         mark_inputs(input_vars[i + 1], i, output_vars, valid_output_vars))

SplitFailure(status, built) ==
  [status |-> status, programs |-> built, input_vars |-> <<>>,
   valid_output_vars |-> <<>>]

(* The list objects of split_program: the caller's list ("argument"), the  *)
(* list the comprehension builds ("resolved") and the list [0] +           *)
(* op_indices builds ("with_zero"); op_indices.append(op_num) acts on the  *)
(* object the name op_indices refers to at that point.  The value is the   *)
(* caller's list as the call leaves it.                                    *)
caller_op_indices(op_indices_arg, op_num) ==
  LET resolved == resolve_indices(op_indices_arg, op_num)
      objects  == [argument  |-> op_indices_arg,
                   resolved  |-> resolved,
                   with_zero |-> <<0>> \o resolved]
      named    == IF resolved[1] # 0 THEN "with_zero" ELSE "resolved"
      appended == IF objects[named][Len(objects[named])] # op_num
                  THEN [objects EXCEPT ![named] = Append(@, op_num)]
                  ELSE objects
  IN appended.argument

(* The call with its effects on the caller's objects: result is what       *)
(* split_program returns or raises, program and op_indices are the         *)
(* caller's program and list as the call leaves them.                      *)
split_objects(p, op_indices_arg) ==
  LET op_num == Len(global_block(p).ops)
  IN IF op_indices_arg = <<>> \/ op_num <= 0
     THEN [result |-> SplitFailure("AssertionError", <<>>),
           program |-> p, op_indices |-> op_indices_arg]
     ELSE
       LET op_indices == add_ends(resolve_indices(op_indices_arg, op_num), op_num)
       IN IF ~strictly_sorted(op_indices)
          THEN [result |-> SplitFailure("AssertionError", <<>>),
                program |-> p,
                op_indices |-> caller_op_indices(op_indices_arg, op_num)]
          ELSE
            LET built == build_splits(p, op_indices, 1, <<>>)
            IN IF built.status # "ok"
               THEN [result |-> SplitFailure(built.status,
                                             built.splitted_programs),
                     program |-> built.source,
                     op_indices |-> caller_op_indices(op_indices_arg, op_num)]
               ELSE
                 LET splitted_programs == built.splitted_programs
                     num_split   == Len(splitted_programs)
                     input_vars  == [k \in 1..num_split |->
                                       get_inputs_of_program(splitted_programs[k])]
                     output_vars == [k \in 1..num_split |->
                                       get_outputs_of_program(splitted_programs[k])]
                     initial     == [k \in 1..num_split |->
                                       IF k = num_split THEN output_vars[k]
                                       ELSE <<>>]
                 IN [result |->
                       [status     |-> "ok",
                        programs   |-> splitted_programs,
                        input_vars |-> input_vars,
                        valid_output_vars |->
                          mark_valid_outputs(1, input_vars, output_vars,
                                             initial)],
                     program |-> built.source,
                     op_indices |-> caller_op_indices(op_indices_arg, op_num)]

split_program(p, op_indices_arg) == split_objects(p, op_indices_arg).result

----------------------------------------------------------------------------
(* OpInOutInfo *)

(* core.infer_no_need_buffer_slots: the registry's answer per operator     *)
(* type; only add_grad declares a slot whose buffer it does not read.      *)
infer_no_need_buffer_slots(op) ==
  IF op.type = "add_grad" THEN {"X"} ELSE {}

(* Mutation: a name that also occurs in a listed slot is left out.         *)
needed_args_unless_listed(slots, no_need_buffer_slots) ==
  UNION { Range(slots[i].args) :
            i \in { k \in 1..Len(slots) : slots[k].slot \notin no_need_buffer_slots } }
    \ UNION { Range(slots[i].args) :
                i \in { k \in 1..Len(slots) : slots[k].slot \in no_need_buffer_slots } }

needed_args(slots, no_need_buffer_slots) ==
  UNION { Range(slots[i].args) :
            i \in { k \in 1..Len(slots) : slots[k].slot \notin no_need_buffer_slots } }

(* OpInOutInfo(): the object as __init__ leaves it *)
OpInOutInfo ==
  [is_build |-> FALSE, no_need_buffer_slots |-> {}, other_arg_names_set |-> {}]

(* self.build_info(op): the object as the call leaves it *)
build_info(self, op) ==
  LET no_need_buffer_slots == infer_no_need_buffer_slots(op)
  IN IF Cardinality(no_need_buffer_slots) = 0
     THEN [self EXCEPT !.no_need_buffer_slots = no_need_buffer_slots]
     ELSE [is_build |-> TRUE,
           no_need_buffer_slots |-> no_need_buffer_slots,
           other_arg_names_set |->
             self.other_arg_names_set
               \cup needed_args(op.inputs, no_need_buffer_slots)
               \cup needed_args(op.outputs, no_need_buffer_slots)]

is_needed(self, arg_name) ==
  \/ Cardinality(self.no_need_buffer_slots) = 0
  \/ arg_name \in self.other_arg_names_set

(* block._find_var_recursive(var_name): the declarations found, from the   *)
(* block (0-based index) up through its ancestors; {} stands for None.     *)
RECURSIVE find_var_recursive(_, _, _)
find_var_recursive(p, block_idx, var_name) ==
  IF block_idx < 0 \/ block_idx >= Len(p.blocks) THEN {}
  ELSE LET found == { v \in p.blocks[block_idx + 1].vars : v.name = var_name }
       IN IF found # {} THEN found
          ELSE find_var_recursive(p, p.blocks[block_idx + 1].parent_idx, var_name)

(* Mutation: the test for None is missing.                                 *)
var_can_be_deleted_unless_persistable(var_name, p, block_idx) ==
  LET var == find_var_recursive(p, block_idx, var_name)
  IN \A v \in var : ~v.persistable

var_can_be_deleted(var_name, p, block_idx) ==
  LET var == find_var_recursive(p, block_idx, var_name)
  IN var # {} /\ \A v \in var : ~v.persistable

----------------------------------------------------------------------------
(* prepare_ir_program *)

(* sorted(): the variable names in string order *)
NameOrder == <<"@EMPTY@", "a", "b", "w">>

sorted(names) ==
  LET keep(n) == n \in names IN SelectSeq(NameOrder, keep)

shadow_output_op(var_name) ==
  Op("shadow_output", <<Slot("x", <<var_name>>)>>, <<Slot("out", <<"@EMPTY@">>)>>)

data_op(var_name) == Op("data", <<>>, <<Slot("out", <<var_name>>)>>)

deletable_outputs(p) ==
  { n \in UNION { Range(output_arg_names(global_block(p).ops[i])) :
                    i \in 1..Len(global_block(p).ops) } :
      var_can_be_deleted(n, p, 0) }

deletable_inputs(p) ==
  { n \in UNION { Range(input_arg_names(global_block(p).ops[i])) :
                    i \in 1..Len(global_block(p).ops) } :
      var_can_be_deleted(n, p, 0) }

RECURSIVE add_shadow_ops(_, _, _)
add_shadow_ops(shadow_var_names, cur_prog, next_prog) ==
  IF shadow_var_names = <<>> THEN <<cur_prog, next_prog>>
  ELSE add_shadow_ops(
         Tail(shadow_var_names),
         [cur_prog EXCEPT
            !.blocks[1].ops = Append(@, shadow_output_op(Head(shadow_var_names)))],
         [next_prog EXCEPT
            !.blocks[1].ops = <<data_op(Head(shadow_var_names))>> \o @])

prepare_ir_program(cur_prog, next_prog) ==
  add_shadow_ops(sorted(deletable_outputs(cur_prog) \cap deletable_inputs(next_prog)),
                 cur_prog, next_prog)

----------------------------------------------------------------------------
(* set_skip_gc_vars *)

job_types == <<"forward", "backward", "optimize">>

(* type_to_program = dict(zip(job_types, sub_programs)) *)
type_to_program(programs) ==
  [forward |-> programs[1], backward |-> programs[2], optimize |-> programs[3]]

(* Mutation: only the synchronization operator is skipped.                 *)
SkippedSyncOnly == {"c_sync_comm_stream"}

SkippedOpTypes == {"c_sync_comm_stream", "conditional_block", "nop", "while"}

op_required_vars(p, block_idx, op) ==
  IF op.type \in SkippedOpTypes THEN {}
  ELSE LET info == build_info(OpInOutInfo, op)
       IN { arg_name \in Range(input_arg_names(op) \o output_arg_names(op)) :
              var_can_be_deleted(arg_name, p, block_idx)
                /\ is_needed(info, arg_name) }

(* step1: the required variables of one sub-program, over all its blocks *)
required_vars_of(p) ==
  UNION { UNION { op_required_vars(p, b - 1, p.blocks[b].ops[i]) :
                    i \in 1..Len(p.blocks[b].ops) } :
            b \in 1..Len(p.blocks) }

(* Mutation: the accumulator is read after the job's own variables went in.*)
skip_gc_vars_of_after_update(required_vars, suffixed_required_vars, micro_batch_id) ==
  required_vars
    \cap (suffixed_required_vars[micro_batch_id + 1] \cup required_vars)

(* skip_gc_vars = required_vars & suffixed_required_vars[micro_batch_id] *)
skip_gc_vars_of(required_vars, suffixed_required_vars, micro_batch_id) ==
  required_vars \cap suffixed_required_vars[micro_batch_id + 1]

(* Mutation: the accumulator is overwritten instead of united.             *)
accumulate_overwrite(suffixed_required_vars, micro_batch_id, required_vars) ==
  [suffixed_required_vars EXCEPT ![micro_batch_id + 1] = required_vars]

(* Mutation: one accumulator shared by all micro-batches.                   *)
accumulate_shared(suffixed_required_vars, micro_batch_id, required_vars) ==
  [i \in 1..Len(suffixed_required_vars) |->
     suffixed_required_vars[i] \cup required_vars]

(* suffixed_required_vars[micro_batch_id] |= required_vars *)
accumulate(suffixed_required_vars, micro_batch_id, required_vars) ==
  [suffixed_required_vars EXCEPT ![micro_batch_id + 1] = @ \cup required_vars]

(* Mutation: the check is made for the optimize type instead.              *)
backward_assert_wrong_type(job_type, skip_gc_vars) ==
  job_type = "optimize" => Cardinality(skip_gc_vars) = 0

(* if job_type == "backward": assert len(skip_gc_vars) == 0 *)
backward_assert(job_type, skip_gc_vars) ==
  job_type = "backward" => Cardinality(skip_gc_vars) = 0

(* Mutation: job.set_skip_gc_vars is called before the backward check.     *)
RECURSIVE sweep_jobs_assign_first(_, _, _)
sweep_jobs_assign_first(job_id, type_to_required_vars, st) ==
  IF job_id < 0 THEN st
  ELSE
    LET job            == st.jobs[job_id + 1]
        required_vars  == type_to_required_vars[job.type]
        micro_batch_id == job.micro_batch_id
    IN IF micro_batch_id >= Len(st.suffixed_required_vars)
       THEN [st EXCEPT !.status = "IndexError"]
       ELSE
         LET skip_gc_vars == skip_gc_vars_of(required_vars,
                                             st.suffixed_required_vars,
                                             micro_batch_id)
             set == [st EXCEPT
                       !.jobs[job_id + 1].skip_gc_vars = skip_gc_vars,
                       !.assigned = Append(@, job_id),
                       !.suffixed_required_vars =
                         accumulate(@, micro_batch_id, required_vars)]
         IN IF ~backward_assert(job.type, skip_gc_vars)
            THEN [set EXCEPT !.status = "AssertionError"]
            ELSE sweep_jobs_assign_first(job_id - 1, type_to_required_vars, set)

(* Mutation: reversed() is missing, the jobs are visited first to last.    *)
RECURSIVE sweep_jobs_forward(_, _, _)
sweep_jobs_forward(job_id, type_to_required_vars, st) ==
  IF job_id < 0 THEN st
  ELSE
    LET pos            == Len(st.jobs) - job_id
        job            == st.jobs[pos]
        required_vars  == type_to_required_vars[job.type]
        micro_batch_id == job.micro_batch_id
    IN IF micro_batch_id >= Len(st.suffixed_required_vars)
       THEN [st EXCEPT !.status = "IndexError"]
       ELSE
         LET skip_gc_vars == skip_gc_vars_of(required_vars,
                                             st.suffixed_required_vars,
                                             micro_batch_id)
         IN IF ~backward_assert(job.type, skip_gc_vars)
            THEN [st EXCEPT !.status = "AssertionError"]
            ELSE sweep_jobs_forward(
                   job_id - 1, type_to_required_vars,
                   [st EXCEPT
                      !.jobs[pos].skip_gc_vars = skip_gc_vars,
                      !.assigned = Append(@, pos - 1),
                      !.suffixed_required_vars =
                        accumulate(@, micro_batch_id, required_vars)])

(* step2: for job_id in reversed(range(num_jobs)); st holds the jobs, the   *)
(* accumulators, the job ids assigned so far in order, and the status.     *)
RECURSIVE sweep_jobs(_, _, _)
sweep_jobs(job_id, type_to_required_vars, st) ==
  IF job_id < 0 THEN st
  ELSE
    LET job            == st.jobs[job_id + 1]
        required_vars  == type_to_required_vars[job.type]
        micro_batch_id == job.micro_batch_id
    IN IF micro_batch_id >= Len(st.suffixed_required_vars)
       THEN [st EXCEPT !.status = "IndexError"]
       ELSE
         LET skip_gc_vars == skip_gc_vars_of(required_vars,
                                             st.suffixed_required_vars,
                                             micro_batch_id)
         IN IF ~backward_assert(job.type, skip_gc_vars)
            THEN [st EXCEPT !.status = "AssertionError"]
            ELSE sweep_jobs(
                   job_id - 1, type_to_required_vars,
                   [st EXCEPT
                      !.jobs[job_id + 1].skip_gc_vars = skip_gc_vars,
                      !.assigned = Append(@, job_id),
                      !.suffixed_required_vars =
                        accumulate(@, micro_batch_id, required_vars)])

(* for i, type in enumerate(job_types): prepare_ir_program(this, next) *)
RECURSIVE prepare_all(_, _)
prepare_all(i, programs) ==
  IF i >= Len(programs) - 1 THEN programs
  ELSE LET pair == prepare_ir_program(programs[i + 1], programs[i + 2])
       IN prepare_all(i + 1,
                      [programs EXCEPT ![i + 1] = pair[1], ![i + 2] = pair[2]])

NoRequiredVars == [forward |-> {}, backward |-> {}, optimize |-> {}]

set_skip_gc_vars(num_micro_batches_arg, programs, jobs_arg, enable_pir) ==
  IF ~(num_micro_batches_arg >= 1)
  THEN [status |-> "AssertionError", jobs |-> jobs_arg, assigned |-> <<>>,
        sub_programs |-> programs, type_to_required_vars |-> NoRequiredVars]
  ELSE
    LET type_to_required_vars ==
          [forward  |-> required_vars_of(type_to_program(programs).forward),
           backward |-> required_vars_of(type_to_program(programs).backward),
           optimize |-> required_vars_of(type_to_program(programs).optimize)]
        swept ==
          sweep_jobs(Len(jobs_arg) - 1, type_to_required_vars,
                     [jobs |-> jobs_arg,
                      suffixed_required_vars |->
                        [i \in 1..num_micro_batches_arg |-> {}],
                      assigned |-> <<>>,
                      status |-> "ok"])
    IN [status   |-> swept.status,
        jobs     |-> swept.jobs,
        assigned |-> swept.assigned,
        sub_programs |->
          IF swept.status = "ok" /\ enable_pir THEN prepare_all(0, programs)
          ELSE programs,
        type_to_required_vars |-> type_to_required_vars]

----------------------------------------------------------------------------
(* _create_program *)

(* block.has_var(name) *)
has_var(block, name) == \E v \in block.vars : v.name = name

(* dst_block.create_var(name=src_var.name, persistable=..., ...): the       *)
(* declarations of a block are keyed by name, a name already declared      *)
(* keeps its declaration.                                                  *)
create_var(block, src_var) ==
  IF has_var(block, src_var.name) THEN block
  ELSE [block EXCEPT !.vars = @ \cup {Var(src_var.name, src_var.persistable)}]

(* if src_block.has_var(name) or (force_create and                         *)
(*    src_block._find_var_recursive(name))                                 *)
must_create(p, src_idx, name, force_create) ==
  \/ has_var(p.blocks[src_idx + 1], name)
  \/ (force_create /\ find_var_recursive(p, src_idx, name) # {})

(* _create_var: src_block.var(name), or src_block._var_recursive(name)     *)
(* with force_create                                                       *)
source_var(p, src_idx, name, force_create) ==
  IF ~force_create
  THEN CHOOSE v \in p.blocks[src_idx + 1].vars : v.name = name
  ELSE CHOOSE v \in find_var_recursive(p, src_idx, name) : TRUE

RECURSIVE create_vars(_, _, _, _, _)
create_vars(p, src_idx, dst, names, force_create) ==
  IF names = <<>> THEN dst
  ELSE create_vars(
         p, src_idx,
         IF must_create(p, src_idx, Head(names), force_create)
         THEN create_var(dst, source_var(p, src_idx, Head(names), force_create))
         ELSE dst,
         Tail(names), force_create)

(* Mutation: the loop over the output names is missing.                    *)
create_program_inputs_only(p, src_idx, dst, src_op, force_create) ==
  create_vars(p, src_idx, [dst EXCEPT !.ops = Append(@, src_op)],
              input_arg_names(src_op), force_create)

(* _create_program(src_block, dst_block, src_op, force_create): src_block  *)
(* is block src_idx (0-based) of p; the value is the destination block.    *)
create_program(p, src_idx, dst, src_op, force_create) ==
  create_vars(p, src_idx, [dst EXCEPT !.ops = Append(@, src_op)],
              input_arg_names(src_op) \o output_arg_names(src_op),
              force_create)

NoBlock == Block(-1, {}, <<>>)

----------------------------------------------------------------------------
(* Operators with the attributes the synchronization passes read and set.  *)
(* op_role is the role tag; ring_id is -1 on an operator without that      *)
(* attribute; pipeline_flag is has_attr('pipeline_flag'); execution_stream *)
(* is <<>> and stream_priority -1 while dist_attr leaves them unset.       *)

RoleOp(type, inputs, outputs, op_role, ring_id) ==
  [type |-> type, inputs |-> inputs, outputs |-> outputs,
   op_role |-> op_role, ring_id |-> ring_id,
   use_calc_stream |-> type \in {"send_v2", "recv_v2"},
   dynamic_shape |-> type \in {"send_v2", "recv_v2"},
   pipeline_flag |-> FALSE,
   execution_stream |-> <<>>, stream_priority |-> -1]

(* The role classifier: one role per operator. *)
is_forward_op(op) == op.op_role = "Forward"

is_backward_op(op) == op.op_role = "Backward"

is_optimize_op(op) == op.op_role = "Optimize"

(* Mutation: the new operator takes the place of the operator at index.    *)
insert_op_in_place(ops, index, op) ==
  SubSeq(ops, 1, index) \o <<op>> \o SubSeq(ops, index + 2, Len(ops))

(* list.insert(index, x) and block._insert_op_without_sync, index 0-based *)
insert_op(ops, index, op) ==
  SubSeq(ops, 1, index) \o <<op>> \o SubSeq(ops, index + 1, Len(ops))

----------------------------------------------------------------------------
(* _insert_sync_for_fthenb_1f1b *)

(* first_optimize_index: -1 stands for None *)
first_optimize_index_of(ops) ==
  LET found == { i \in 1..Len(ops) : is_optimize_op(ops[i]) }
  IN IF found = {} THEN -1
     ELSE (CHOOSE i \in found : \A j \in found : i <= j) - 1

sync_calc_op(var_name, op_role) ==
  RoleOp("c_sync_calc_stream", <<Slot("X", <<var_name>>)>>,
         <<Slot("Out", <<var_name>>)>>, op_role, -1)

sync_comm_op(var_name, new_op_role, ring_id) ==
  RoleOp("c_sync_comm_stream", <<Slot("X", <<var_name>>)>>,
         <<Slot("Out", <<var_name>>)>>, new_op_role, ring_id)

nop_op(var_name) ==
  RoleOp("nop", <<Slot("X", <<var_name>>)>>, <<Slot("Out", <<var_name>>)>>,
         "Backward", -1)

(* if int(op_role) == int(OpRole.Forward): offset += 1 *)
comm_offset(op_role, offset) ==
  IF op_role = "Forward" THEN offset + 1 ELSE offset

(* The first loop over list(block.ops), from position index (0-based) of   *)
(* the snapshot.  st.ops is block.ops as mutated so far and st.origin, of  *)
(* the same length, gives for each of its operators the snapshot index it  *)
(* came from, -1 for an inserted one: the loop sets attributes on the      *)
(* snapshot's operator objects wherever they now are.                      *)
RECURSIVE insert_sync_ops(_, _, _, _, _)
insert_sync_ops(block, snapshot, first_optimize_index, index, st) ==
  IF index >= Len(snapshot) \/ st.status # "ok" THEN st
  ELSE
    LET op == snapshot[index + 1]
        at == CHOOSE p \in 1..Len(st.origin) : st.origin[p] = index
    IN IF op.type \notin {"send_v2", "recv_v2"}
       THEN insert_sync_ops(block, snapshot, first_optimize_index, index + 1, st)
       ELSE IF op.type = "recv_v2"
       THEN insert_sync_ops(block, snapshot, first_optimize_index, index + 1,
                            [st EXCEPT !.ops[at].dynamic_shape = FALSE])
       ELSE
         LET var_name == input_arg_names(op)[1]
             marked == [st EXCEPT !.ops[at].dynamic_shape = FALSE,
                                  !.ops[at].use_calc_stream = FALSE]
         IN IF ~has_var(block, var_name)
            THEN [marked EXCEPT !.status = "ValueError"]
            ELSE
              LET withCalc ==
                    [marked EXCEPT
                       !.ops = insert_op(@, index + st.offset,
                                         sync_calc_op(var_name, op.op_role)),
                       !.origin = insert_op(@, index + st.offset, -1),
                       !.offset = @ + 1]
              IN IF op.op_role = "Backward" /\ first_optimize_index = -1
                 THEN [withCalc EXCEPT !.status = "TypeError"]
                 ELSE
                   LET at_index ==
                         IF op.op_role = "Backward"
                         THEN first_optimize_index + withCalc.offset
                         ELSE index + withCalc.offset + 1
                       new_op_role ==
                         IF op.op_role = "Backward" THEN "Optimize"
                         ELSE "Backward"
                       sync_comm ==
                         [sync_comm_op(var_name, new_op_role, op.ring_id)
                            EXCEPT !.pipeline_flag = (op.op_role = "Forward")]
                   IN insert_sync_ops(
                        block, snapshot, first_optimize_index, index + 1,
                        [withCalc EXCEPT
                           !.ops = insert_op(@, at_index, sync_comm),
                           !.origin = insert_op(@, at_index, -1),
                           !.offset = comm_offset(op.op_role, @)])

(* backward_recv_index: -1 stands for None *)
backward_recv_index_of(ops) ==
  LET found == { i \in 1..Len(ops) :
                   ops[i].type = "recv_v2" /\ is_backward_op(ops[i]) }
  IN IF found = {} THEN -1
     ELSE (CHOOSE i \in found : \A j \in found : i <= j) - 1

(* The second loop over list(block.ops): the flagged c_sync_comm_stream    *)
(* operators in front of the first backward recv_v2 are removed and,       *)
(* unless the new executor is used, a nop is inserted for each.            *)
(* Mutation: the removal index ignores the operators removed before.       *)
RECURSIVE replace_with_nop_stale_index(_, _, _, _, _, _)
replace_with_nop_stale_index(block, snapshot, backward_recv_index, use_new_executor, index, st) ==
  IF index >= Len(snapshot) \/ index >= backward_recv_index
       \/ st.status # "ok"
  THEN st
  ELSE
    LET op == snapshot[index + 1]
    IN IF ~(op.type = "c_sync_comm_stream" /\ op.pipeline_flag)
       THEN replace_with_nop_stale_index(block, snapshot, backward_recv_index,
                                         use_new_executor, index + 1, st)
       ELSE
         LET removed == remove_op(st.ops, index)
         IN replace_with_nop_stale_index(
              block, snapshot, backward_recv_index, use_new_executor,
              index + 1,
              [st EXCEPT
                 !.ops = IF use_new_executor THEN removed
                         ELSE insert_op(removed, backward_recv_index,
                                        nop_op(output_arg_names(op)[1]))])

RECURSIVE replace_with_nop(_, _, _, _, _, _)
replace_with_nop(block, snapshot, backward_recv_index, use_new_executor, index, st) ==
  IF index >= Len(snapshot) \/ index >= backward_recv_index
       \/ st.status # "ok"
  THEN st
  ELSE
    LET op == snapshot[index + 1]
    IN IF ~(op.type = "c_sync_comm_stream" /\ op.pipeline_flag)
       THEN replace_with_nop(block, snapshot, backward_recv_index,
                             use_new_executor, index + 1, st)
       ELSE
         LET var_name == output_arg_names(op)[1]
         IN IF ~has_var(block, var_name)
            THEN [st EXCEPT !.status = "ValueError"]
            ELSE
              LET removed == remove_op(st.ops, index + st.offset)
              IN replace_with_nop(
                   block, snapshot, backward_recv_index, use_new_executor,
                   index + 1,
                   [st EXCEPT
                      !.ops = IF use_new_executor THEN removed
                              ELSE insert_op(removed, backward_recv_index,
                                             nop_op(var_name)),
                      !.offset = @ - 1])

(* The body of `for block in program.blocks` for one block: the value      *)
(* holds the block as left, the status, and block.ops as it was at the     *)
(* first block._sync_with_cpp().                                           *)
insert_sync_for_block(block, use_new_executor) ==
  LET first == insert_sync_ops(
                 block, block.ops, first_optimize_index_of(block.ops), 0,
                 [ops |-> block.ops,
                  origin |-> [i \in 1..Len(block.ops) |-> i - 1],
                  offset |-> 0, status |-> "ok"])
      backward_recv_index == backward_recv_index_of(first.ops)
  IN IF first.status # "ok"
     THEN [block |-> [block EXCEPT !.ops = first.ops],
           status |-> first.status, inserted |-> first.ops]
     ELSE IF backward_recv_index = -1
     THEN [block |-> [block EXCEPT !.ops = first.ops],
           status |-> "ok", inserted |-> first.ops]
     ELSE
       LET second == replace_with_nop(
                       block, first.ops, backward_recv_index,
                       use_new_executor, 0,
                       [ops |-> first.ops, offset |-> 0, status |-> "ok"])
       IN [block |-> [block EXCEPT !.ops = second.ops],
           status |-> second.status, inserted |-> first.ops]

(* for block in program.blocks: the pass stops at the first block that     *)
(* raises, leaving the later blocks untouched.  inserted collects          *)
(* block.ops of the blocks visited, as of the end of their first loop.     *)
RECURSIVE insert_sync_blocks(_, _, _)
insert_sync_blocks(b, use_new_executor, st) ==
  IF b > Len(st.program.blocks) \/ st.status # "ok" THEN st
  ELSE LET r == insert_sync_for_block(st.program.blocks[b], use_new_executor)
       IN insert_sync_blocks(
            b + 1, use_new_executor,
            [program  |-> [st.program EXCEPT !.blocks[b] = r.block],
             status   |-> r.status,
             inserted |-> Append(st.inserted, r.inserted)])

insert_sync_for_fthenb_1f1b(p, use_new_executor) ==
  insert_sync_blocks(1, use_new_executor,
                     [program |-> p, status |-> "ok", inserted |-> <<>>])

----------------------------------------------------------------------------
(* _overlap_send_recv *)

(* A Python string is the sequence of its pieces: a literal is one piece,  *)
(* str(n) is one piece per character.                                      *)
Digits == <<"0", "1", "2", "3", "4", "5", "6", "7", "8", "9">>

(* str(n) of an int *)
RECURSIVE str(_)
str(n) ==
  IF n < 0 THEN <<"-">> \o str(0 - n)
  ELSE IF n < 10 THEN <<Digits[n + 1]>>
  ELSE str(n \div 10) \o <<Digits[(n % 10) + 1]>>

(* Mutation: the ring id is left out of the stream name.                   *)
overlap_op_one_send_stream(op) ==
  IF op.type = "send_v2"
  THEN [op EXCEPT !.dynamic_shape = FALSE, !.use_calc_stream = TRUE,
                  !.execution_stream = <<"send_stream_">>,
                  !.stream_priority = 0]
  ELSE IF op.type = "recv_v2"
  THEN [op EXCEPT !.dynamic_shape = FALSE, !.use_calc_stream = TRUE,
                  !.execution_stream = <<"recv_stream">>,
                  !.stream_priority = 0]
  ELSE op

overlap_op(op) ==
  IF op.type = "send_v2"
  THEN [op EXCEPT !.dynamic_shape = FALSE, !.use_calc_stream = TRUE,
                  !.execution_stream = <<"send_stream_">> \o str(op.ring_id),
                  !.stream_priority = 0]
  ELSE IF op.type = "recv_v2"
  THEN [op EXCEPT !.dynamic_shape = FALSE, !.use_calc_stream = TRUE,
                  !.execution_stream = <<"recv_stream">>,
                  !.stream_priority = 0]
  ELSE op

overlap_send_recv(p) ==
  [program |->
     [blocks |->
        [b \in 1..Len(p.blocks) |->
           [p.blocks[b] EXCEPT
              !.ops = [i \in 1..Len(p.blocks[b].ops) |->
                         overlap_op(p.blocks[b].ops[i])]]]],
   status |-> "ok", inserted |-> <<>>]

----------------------------------------------------------------------------
(* _add_event_dependency *)

(* op.dist_attr of a new operator, as far as events go *)
DistAttr(event_to_record) ==
  [force_record_event |-> FALSE, event_to_record |-> event_to_record,
   events_to_wait |-> <<>>]

(* Mutation: the list that was appended to is not assigned back; the       *)
(* getter handed out a copy.                                               *)
add_event_dependency_on_copy(attrs, recorder_op, waiter_op) ==
  IF ~attrs[recorder_op].force_record_event
  THEN [attrs EXCEPT ![recorder_op].force_record_event = TRUE]
  ELSE attrs

(* attrs maps an operator to its dist_attr; recorder_op and waiter_op are  *)
(* operators, possibly the same one.  waiter_wait_list is a copy of the    *)
(* waiter's list, assigned back after the append.                          *)
add_event_dependency(attrs, recorder_op, waiter_op) ==
  LET recorded == IF ~attrs[recorder_op].force_record_event
                  THEN [attrs EXCEPT ![recorder_op].force_record_event = TRUE]
                  ELSE attrs
      waiter_wait_list == recorded[waiter_op].events_to_wait
      event_to_record  == recorded[recorder_op].event_to_record
  IN IF ~Contains(waiter_wait_list, event_to_record)
     THEN [recorded EXCEPT
             ![waiter_op].events_to_wait =
               Append(waiter_wait_list, event_to_record)]
     ELSE recorded

----------------------------------------------------------------------------
(* _program_for_fthenb_and_1f1b *)

is_fetch_op(op) == op.type \in {"fetch", "fetch_v2"}

(* Mutation: an operator of no role is skipped instead of raising.         *)
split_ops_skip_other(ops) ==
  LET fwd(op) == ~is_fetch_op(op) /\ is_forward_op(op)
      bwd(op) == ~is_fetch_op(op) /\ is_backward_op(op)
      opt(op) == ~is_fetch_op(op) /\ is_optimize_op(op)
  IN [status |-> "ok",
      ops |-> <<SelectSeq(ops, fwd), SelectSeq(ops, bwd), SelectSeq(ops, opt)>>]

(* _split_ops: fwd_ops, bwd_ops, opt_ops, or the ValueError of the first   *)
(* operator that has none of the three roles                               *)
split_ops(ops) ==
  LET fwd(op) == ~is_fetch_op(op) /\ is_forward_op(op)
      bwd(op) == ~is_fetch_op(op) /\ ~is_forward_op(op) /\ is_backward_op(op)
      opt(op) == /\ ~is_fetch_op(op) /\ ~is_forward_op(op)
                 /\ ~is_backward_op(op) /\ is_optimize_op(op)
      other(op) == ~is_fetch_op(op) /\ ~fwd(op) /\ ~bwd(op) /\ ~opt(op)
  IN IF \E i \in 1..Len(ops) : other(ops[i])
     THEN [status |-> "ValueError", ops |-> <<<<>>, <<>>, <<>>>>]
     ELSE [status |-> "ok",
           ops |-> <<SelectSeq(ops, fwd), SelectSeq(ops, bwd),
                     SelectSeq(ops, opt)>>]

(* _add_ops_into_block *)
RECURSIVE add_ops_into_block(_, _, _, _)
add_ops_into_block(p, src_idx, dst, ops) ==
  IF ops = <<>> THEN dst
  ELSE add_ops_into_block(p, src_idx,
                          create_program(p, src_idx, dst, Head(ops), FALSE),
                          Tail(ops))

(* Program(): one empty global block *)
new_program == [blocks |-> <<Block(-1, {}, <<>>)>>]

(* prog._create_block(parent_idx=src_block.parent_idx) *)
create_block(prog, parent_idx) ==
  [prog EXCEPT !.blocks = Append(@, Block(parent_idx, {}, <<>>))]

(* The three destinations of one source block, k = 1 (fwd), 2 (bwd),       *)
(* 3 (opt) in this order.  st.programs are fwd_prog, bwd_prog, opt_prog    *)
(* and st.cur the 0-based block indices that fwd_block, bwd_block and      *)
(* opt_block refer to.                                                     *)
RECURSIVE add_role_ops(_, _, _, _, _)
add_role_ops(p, idx, role_ops, k, st) ==
  IF k > 3 THEN st
  ELSE IF idx = 0
  THEN add_role_ops(
         p, idx, role_ops, k + 1,
         [st EXCEPT
            !.cur[k] = 0,
            !.programs[k].blocks[1] =
              add_ops_into_block(p, idx, @, role_ops[k])])
  ELSE IF Len(role_ops[k]) = 0
  THEN add_role_ops(p, idx, role_ops, k + 1, st)
  ELSE
    LET created == create_block(st.programs[k],
                                p.blocks[idx + 1].parent_idx)
        new_idx == Len(created.blocks) - 1
    IN add_role_ops(
         p, idx, role_ops, k + 1,
         [st EXCEPT
            !.cur[k] = new_idx,
            !.programs[k] =
              [created EXCEPT
                 !.blocks[new_idx + 1] =
                   add_ops_into_block(p, idx, @, role_ops[k])]])

(* for block in [fwd_block, bwd_block, opt_block]:                         *)
(*     if block._find_var_recursive(in_name): dst_block = block; break     *)
fetch_destination(st, in_name) ==
  LET found == { k \in 1..3 :
                   find_var_recursive(st.programs[k], st.cur[k], in_name) # {} }
  IN IF found = {} THEN 0
     ELSE CHOOSE k \in found : \A j \in found : k <= j

(* for fetch_op in src_block.ops *)
RECURSIVE add_fetch_ops(_, _, _, _)
add_fetch_ops(p, idx, ops, st) ==
  IF ops = <<>> THEN st
  ELSE IF ~is_fetch_op(Head(ops)) THEN add_fetch_ops(p, idx, Tail(ops), st)
  ELSE
    LET k == fetch_destination(st, input_arg_names(Head(ops))[1])
    IN add_fetch_ops(
         p, idx, Tail(ops),
         IF k = 0 THEN st
         ELSE [st EXCEPT
                 !.programs[k].blocks[st.cur[k] + 1] =
                   create_program(p, idx, @, Head(ops), FALSE)])

(* for idx, src_block in enumerate(program.blocks) *)
RECURSIVE partition_blocks(_, _, _)
partition_blocks(p, idx, st) ==
  IF idx >= Len(p.blocks) \/ st.status # "ok" THEN st
  ELSE
    LET split == split_ops(p.blocks[idx + 1].ops)
    IN IF split.status # "ok" THEN [st EXCEPT !.status = split.status]
       ELSE partition_blocks(
              p, idx + 1,
              add_fetch_ops(p, idx, p.blocks[idx + 1].ops,
                            add_role_ops(p, idx, split.ops, 1, st)))

(* Mutation: the explicit-barrier pass runs after the overlap pass too.    *)
synchronize_both(p, enable_send_recv_overlap, use_new_executor) ==
  IF enable_send_recv_overlap
  THEN insert_sync_for_fthenb_1f1b(overlap_send_recv(p).program,
                                   use_new_executor)
  ELSE insert_sync_for_fthenb_1f1b(p, use_new_executor)

(* if enable_send_recv_overlap: _overlap_send_recv(program)                *)
(* else: _insert_sync_for_fthenb_1f1b(program)                             *)
synchronize(p, enable_send_recv_overlap, use_new_executor) ==
  IF enable_send_recv_overlap THEN overlap_send_recv(p)
  ELSE insert_sync_for_fthenb_1f1b(p, use_new_executor)

(* The value holds the status, the list returned, the program argument as  *)
(* the pass left it, and what the pass recorded.                           *)
program_for_fthenb_and_1f1b(p, enable_send_recv_overlap, use_new_executor) ==
  LET pass == synchronize(p, enable_send_recv_overlap, use_new_executor)
  IN IF pass.status # "ok"
     THEN [status |-> pass.status, programs |-> <<>>,
           program |-> pass.program, sync_status |-> pass.status,
           inserted |-> pass.inserted]
     ELSE
       LET parts == partition_blocks(
                      pass.program, 0,
                      [programs |-> <<new_program, new_program, new_program>>,
                       cur |-> <<0, 0, 0>>, status |-> "ok"])
       IN [status |-> parts.status,
           programs |-> IF parts.status = "ok" THEN parts.programs ELSE <<>>,
           program |-> pass.program, sync_status |-> "ok",
           inserted |-> pass.inserted]

----------------------------------------------------------------------------
(* The slicer as a state machine: a caller holds a program and calls       *)
(* prune_program or split_program on it once.                              *)

(* op_indices is the list as passed, caller_op_indices the caller's list   *)
(* object as the call leaves it.                                           *)
NoCall == [fn |-> "none", start_op_idx |-> 0, end_op_idx |-> 0,
           op_indices |-> <<>>, caller_op_indices |-> <<>>]

NoRet == SplitFailure("none", <<>>)

NoOp == Op("none", <<>>, <<>>)

(* operators are numbered from 1; 0 stands for no operator *)
NoEventCall == [recorder |-> 0, waiter |-> 0]

NoGcRet ==
  [status |-> "none", assigned |-> <<>>, type_to_required_vars |-> NoRequiredVars]

NoPipeCall == [fn |-> "none", enable_send_recv_overlap |-> FALSE,
               use_new_executor |-> FALSE]

NoPipeRet == [status |-> "none", programs |-> <<>>, sync_status |-> "none",
              inserted |-> <<>>]

InitSplit ==
  /\ program \in Programs
  /\ call = NoCall
  /\ ret = NoRet
  /\ num_micro_batches = 0
  /\ sub_programs = <<>>
  /\ jobs = <<>>
  /\ gc_ret = NoGcRet
  /\ src_program = NoProgram
  /\ dst_block = NoBlock
  /\ copy_log = <<>>
  /\ pipe_program = NoProgram
  /\ pipe_call = NoPipeCall
  /\ pipe_ret = NoPipeRet
  /\ overlap_calls = 0
  /\ op_info = OpInOutInfo
  /\ info_op = NoOp
  /\ dist_attrs = <<>>
  /\ event_call = NoEventCall

CallPrune ==
  /\ call.fn = "none"
  /\ \E s \in Indices, e \in Indices :
       \E r \in {prune_program(program, s, e)} :
          /\ call' = [fn |-> "prune_program", start_op_idx |-> s,
                      end_op_idx |-> e, op_indices |-> <<>>,
                      caller_op_indices |-> <<>>]
          /\ ret' = [status |-> r.status,
                     programs |-> IF r.status = "ok" THEN <<r.program>> ELSE <<>>,
                     input_vars |-> <<>>, valid_output_vars |-> <<>>]
          /\ program' = r.source
  /\ UNCHANGED <<gc_vars, copy_vars, pipe_vars, overlap_calls, info_vars,
               event_vars>>

CallSplit ==
  /\ call.fn = "none"
  /\ \E b \in IndexLists :
       \E r \in {split_objects(program, b)} :
         /\ call' = [fn |-> "split_program", start_op_idx |-> 0,
                     end_op_idx |-> 0, op_indices |-> b,
                     caller_op_indices |-> r.op_indices]
         /\ ret' = r.result
         /\ program' = r.program
  /\ UNCHANGED <<gc_vars, copy_vars, pipe_vars, overlap_calls, info_vars,
               event_vars>>

NextSplit == CallPrune \/ CallSplit

SpecSplit == InitSplit /\ [][NextSplit]_vars

----------------------------------------------------------------------------
(* The liveness scheduler as a state machine: the scheduler has built the  *)
(* sub-programs and the job sequence and calls set_skip_gc_vars once.      *)

MaxJobs == 3

MaxMicroBatches == 2

GcDecls == { Var("a", FALSE), Var("b", FALSE), Var("w", TRUE) }

sgd_op == Op("sgd", <<Slot("Param", <<"w">>)>>, <<Slot("ParamOut", <<"w">>)>>)

scale_op == Op("scale", <<Slot("X", <<"a">>)>>, <<Slot("Out", <<"a">>)>>)

(* requires a: b is touched by a conditional_block only, a is used in the  *)
(* sub-block and declared in its parent                                    *)
ProgNested ==
  [blocks |->
     <<Block(-1, GcDecls,
             <<Op("conditional_block", <<Slot("Cond", <<"b">>)>>,
                  <<Slot("Out", <<"b">>)>>)>>),
       Block(0, {}, <<scale_op>>)>>]

(* requires a: w is persistable *)
ProgA == [blocks |-> <<Block(-1, GcDecls, <<scale_op, sgd_op>>)>>]

(* requires a and b *)
ProgAB ==
  [blocks |->
     <<Block(-1, GcDecls,
             <<Op("matmul", <<Slot("X", <<"a">>), Slot("Y", <<"w">>)>>,
                  <<Slot("Out", <<"b">>)>>)>>)>>]

(* requires b: a is read through the no-need-buffer slot X and by a nop   *)
(* only, "@EMPTY@" is declared nowhere                                     *)
ProgB ==
  [blocks |->
     <<Block(-1, GcDecls,
             <<Op("add_grad", <<Slot("X", <<"a">>), Slot("Y", <<"b">>)>>,
                  <<Slot("Out", <<"b">>), Slot("XShape", <<"@EMPTY@">>)>>),
               Op("nop", <<Slot("X", <<"a">>)>>, <<Slot("Out", <<"a">>)>>)>>)>>]

(* One program per job type, in the order of job_types. *)
SubProgramLists ==
  { <<f, b, ProgB>> : f \in {ProgNested, ProgAB}, b \in {ProgA, ProgB} }

(* A job as the scheduler constructs it: no skip-GC variable yet. *)
Job(type, micro_batch_id) ==
  [type |-> type, micro_batch_id |-> micro_batch_id, skip_gc_vars |-> {}]

Jobs ==
  { Job(t, m) : t \in Range(job_types), m \in 0..(MaxMicroBatches - 1) }

(* The schedule of two micro-batches run forward then backward, and the    *)
(* same jobs with the second micro-batch run between the first one's       *)
(* forward and backward job.                                               *)
ExampleJobs ==
  <<Job("forward", 0), Job("forward", 1), Job("backward", 1), Job("backward", 0)>>

InterleavedJobs ==
  <<Job("forward", 0), Job("backward", 1), Job("forward", 1), Job("backward", 0)>>

JobLists ==
  UNION { [1..n -> Jobs] : n \in 0..MaxJobs } \cup {ExampleJobs, InterleavedJobs}

InitGc ==
  /\ program = NoProgram
  /\ call = NoCall
  /\ ret = NoRet
  /\ num_micro_batches \in 0..MaxMicroBatches
  /\ sub_programs \in SubProgramLists
  /\ jobs \in JobLists
  /\ gc_ret = NoGcRet
  /\ src_program = NoProgram
  /\ dst_block = NoBlock
  /\ copy_log = <<>>
  /\ pipe_program = NoProgram
  /\ pipe_call = NoPipeCall
  /\ pipe_ret = NoPipeRet
  /\ overlap_calls = 0
  /\ op_info = OpInOutInfo
  /\ info_op = NoOp
  /\ dist_attrs = <<>>
  /\ event_call = NoEventCall

(* get_flags("FLAGS_enable_pir_in_executor") is read from the environment  *)
(* during the call.                                                        *)
CallSetSkipGcVars ==
  /\ gc_ret.status = "none"
  /\ \E enable_pir \in BOOLEAN :
       \E r \in {set_skip_gc_vars(num_micro_batches, sub_programs, jobs, enable_pir)} :
          /\ jobs' = r.jobs
          /\ sub_programs' = r.sub_programs
          /\ gc_ret' = [status |-> r.status, assigned |-> r.assigned,
                        type_to_required_vars |-> r.type_to_required_vars]
  /\ UNCHANGED <<num_micro_batches, slicer_vars, copy_vars, pipe_vars,
               overlap_calls, info_vars, event_vars>>

NextGc == CallSetSkipGcVars

SpecGc == InitGc /\ [][NextGc]_vars

----------------------------------------------------------------------------
(* The re-materializer as a state machine: a caller copies operators of a  *)
(* source program into one destination block, one _create_program call at  *)
(* a time.                                                                 *)

MaxCopies == 3

CopySources == {ProgNested, ProgA, ProgAB, ProgB}

InitCopy ==
  /\ program = NoProgram
  /\ call = NoCall
  /\ ret = NoRet
  /\ num_micro_batches = 0
  /\ sub_programs = <<>>
  /\ jobs = <<>>
  /\ gc_ret = NoGcRet
  /\ src_program \in CopySources
  /\ dst_block = NoBlock
  /\ copy_log = <<>>
  /\ pipe_program = NoProgram
  /\ pipe_call = NoPipeCall
  /\ pipe_ret = NoPipeRet
  /\ overlap_calls = 0
  /\ op_info = OpInOutInfo
  /\ info_op = NoOp
  /\ dist_attrs = <<>>
  /\ event_call = NoEventCall

CallCreateProgram ==
  /\ Len(copy_log) < MaxCopies
  /\ \E b \in 1..Len(src_program.blocks) :
       \E i \in 1..Len(src_program.blocks[b].ops) :
         \E force_create \in BOOLEAN :
           /\ dst_block' = create_program(src_program, b - 1, dst_block,
                                          src_program.blocks[b].ops[i],
                                          force_create)
           /\ copy_log' = Append(copy_log,
                                 [block_idx |-> b - 1, op_idx |-> i - 1,
                                  force_create |-> force_create,
                                  status |-> "ok"])
  /\ UNCHANGED <<src_program, slicer_vars, gc_vars, pipe_vars, overlap_calls,
               info_vars, event_vars>>

NextCopy == CallCreateProgram

SpecCopy == InitCopy /\ [][NextCopy]_vars

----------------------------------------------------------------------------
(* Event dependencies as a state machine: the pipeline scheduler holds     *)
(* operators of its sub-programs and links them pairwise, any number of    *)
(* times.                                                                  *)

MaxEventOps == 3

(* The event each operator records: operators 1 and 3 record the same      *)
(* event name.                                                             *)
EventNames == <<"event_0", "event_1">>

EventOps == 1..MaxEventOps

InitEvent ==
  /\ program = NoProgram
  /\ call = NoCall
  /\ ret = NoRet
  /\ num_micro_batches = 0
  /\ sub_programs = <<>>
  /\ jobs = <<>>
  /\ gc_ret = NoGcRet
  /\ src_program = NoProgram
  /\ dst_block = NoBlock
  /\ copy_log = <<>>
  /\ pipe_program = NoProgram
  /\ pipe_call = NoPipeCall
  /\ pipe_ret = NoPipeRet
  /\ overlap_calls = 0
  /\ op_info = OpInOutInfo
  /\ info_op = NoOp
  /\ dist_attrs = [i \in EventOps |-> DistAttr(EventNames[((i - 1) % 2) + 1])]
  /\ event_call = NoEventCall

CallAddEventDependency ==
  /\ \E recorder_op \in EventOps, waiter_op \in EventOps :
       /\ dist_attrs' = add_event_dependency(dist_attrs, recorder_op, waiter_op)
       /\ event_call' = [recorder |-> recorder_op, waiter |-> waiter_op]
  /\ UNCHANGED <<slicer_vars, gc_vars, copy_vars, pipe_vars, overlap_calls,
                 info_vars>>

NextEvent == CallAddEventDependency

SpecEvent == InitEvent /\ [][NextEvent]_vars

----------------------------------------------------------------------------
(* OpInOutInfo as a state machine: an object is constructed and            *)
(* build_info is called on it once, as set_skip_gc_vars does for every     *)
(* operator it analyses.                                                   *)

MaxSlotArgs == 1

InfoNames == {"a", "b", "w"}

SlotArgLists == UNION { [1..n -> InfoNames] : n \in 0..MaxSlotArgs }

InfoOps ==
  { Op(type, <<Slot("X", x), Slot("Y", y)>>, <<Slot("Out", out)>>) :
      type \in {"add_grad", "matmul_grad"},
      x \in SlotArgLists, y \in SlotArgLists, out \in SlotArgLists }

InitInfo ==
  /\ program = NoProgram
  /\ call = NoCall
  /\ ret = NoRet
  /\ num_micro_batches = 0
  /\ sub_programs = <<>>
  /\ jobs = <<>>
  /\ gc_ret = NoGcRet
  /\ src_program = NoProgram
  /\ dst_block = NoBlock
  /\ copy_log = <<>>
  /\ pipe_program = NoProgram
  /\ pipe_call = NoPipeCall
  /\ pipe_ret = NoPipeRet
  /\ overlap_calls = 0
  /\ op_info = OpInOutInfo
  /\ info_op = NoOp
  /\ dist_attrs = <<>>
  /\ event_call = NoEventCall

(* op_info = OpInOutInfo(); op_info.build_info(op) *)
CallBuildInfo ==
  /\ info_op = NoOp
  /\ \E op \in InfoOps :
       /\ op_info' = build_info(op_info, op)
       /\ info_op' = op
  /\ UNCHANGED <<slicer_vars, gc_vars, copy_vars, pipe_vars, overlap_calls,
                 event_vars>>

NextInfo == CallBuildInfo

SpecInfo == InitInfo /\ [][NextInfo]_vars

----------------------------------------------------------------------------
(* The role partition as a state machine: the pipeline pass holds the      *)
(* program that reshard left, with its send_v2 and recv_v2 operators, and  *)
(* calls _program_for_fthenb_and_1f1b on it once.                          *)

MaxPipeOps == 3

PipeOpDescs ==
  { RoleOp("matmul", <<Slot("X", <<"a">>), Slot("Y", <<"w">>)>>,
           <<Slot("Out", <<"b">>)>>, "Forward", -1),
    RoleOp("send_v2", <<Slot("X", <<"a">>)>>, <<>>, "Forward", 0),
    RoleOp("recv_v2", <<>>, <<Slot("Out", <<"a">>)>>, "Backward", 0),
    RoleOp("matmul_grad", <<Slot("Out@GRAD", <<"b">>)>>,
           <<Slot("X@GRAD", <<"a">>)>>, "Backward", -1),
    RoleOp("send_v2", <<Slot("X", <<"b">>)>>, <<>>, "Backward", 1),
    RoleOp("sgd", <<Slot("Param", <<"w">>)>>, <<Slot("ParamOut", <<"w">>)>>,
           "Optimize", -1),
    RoleOp("print", <<Slot("In", <<"a">>)>>, <<>>, "Other", -1),
    RoleOp("fetch_v2", <<Slot("X", <<"b">>)>>, <<>>, "Forward", -1) }

PipeOpLists == UNION { [1..n -> PipeOpDescs] : n \in 0..MaxPipeOps }

(* Programs with a sub-block: a backward operator on names declared in the *)
(* global block only; a sub-block with its own declaration, a fetch and    *)
(* an optimize operator but no forward operator; and a forward sub-block   *)
(* whose parent is a sub-block without forward operator, behind another    *)
(* forward sub-block.                                                      *)
NestedPipePrograms ==
  { [blocks |->
       <<Block(-1, GcDecls,
               <<RoleOp("matmul", <<Slot("X", <<"a">>), Slot("Y", <<"w">>)>>,
                        <<Slot("Out", <<"b">>)>>, "Forward", -1),
                 RoleOp("sgd", <<Slot("Param", <<"w">>)>>,
                        <<Slot("ParamOut", <<"w">>)>>, "Optimize", -1)>>),
         Block(0, {},
               <<RoleOp("matmul_grad", <<Slot("Out@GRAD", <<"b">>)>>,
                        <<Slot("X@GRAD", <<"a">>)>>, "Backward", -1)>>)>>],
    [blocks |->
       <<Block(-1, GcDecls,
               <<RoleOp("matmul", <<Slot("X", <<"a">>), Slot("Y", <<"w">>)>>,
                        <<Slot("Out", <<"b">>)>>, "Forward", -1)>>),
         Block(0, {Var("b", FALSE)},
               <<RoleOp("fetch_v2", <<Slot("X", <<"b">>)>>, <<>>,
                        "Forward", -1),
                 RoleOp("send_v2", <<Slot("X", <<"b">>)>>, <<>>,
                        "Backward", 1),
                 RoleOp("sgd", <<Slot("Param", <<"w">>)>>,
                        <<Slot("ParamOut", <<"w">>)>>, "Optimize", -1)>>)>>],
    [blocks |->
       <<Block(-1, GcDecls,
               <<RoleOp("matmul", <<Slot("X", <<"a">>), Slot("Y", <<"w">>)>>,
                        <<Slot("Out", <<"b">>)>>, "Forward", -1)>>),
         Block(0, {},
               <<RoleOp("sgd", <<Slot("Param", <<"w">>)>>,
                        <<Slot("ParamOut", <<"w">>)>>, "Optimize", -1)>>),
         Block(0, {},
               <<RoleOp("matmul", <<Slot("X", <<"a">>), Slot("Y", <<"w">>)>>,
                        <<Slot("Out", <<"b">>)>>, "Forward", -1)>>),
         Block(1, {},
               <<RoleOp("matmul", <<Slot("X", <<"b">>), Slot("Y", <<"w">>)>>,
                        <<Slot("Out", <<"a">>)>>, "Forward", -1)>>)>>] }

PipePrograms ==
  { [blocks |-> <<Block(-1, GcDecls, o)>>] : o \in PipeOpLists }
    \cup NestedPipePrograms

InitPipe ==
  /\ program = NoProgram
  /\ call = NoCall
  /\ ret = NoRet
  /\ num_micro_batches = 0
  /\ sub_programs = <<>>
  /\ jobs = <<>>
  /\ gc_ret = NoGcRet
  /\ src_program = NoProgram
  /\ dst_block = NoBlock
  /\ copy_log = <<>>
  /\ pipe_program \in PipePrograms
  /\ pipe_call = NoPipeCall
  /\ pipe_ret = NoPipeRet
  /\ overlap_calls = 0
  /\ op_info = OpInOutInfo
  /\ info_op = NoOp
  /\ dist_attrs = <<>>
  /\ event_call = NoEventCall

(* use_new_executor() is read from the environment during the pass.        *)
CallProgramForFthenbAnd1f1b ==
  /\ pipe_call.fn = "none"
  /\ \E enable_send_recv_overlap \in BOOLEAN, use_new_executor \in BOOLEAN :
       \E r \in {program_for_fthenb_and_1f1b(pipe_program,
                                             enable_send_recv_overlap,
                                             use_new_executor)} :
         /\ pipe_program' = r.program
         /\ pipe_call' = [fn |-> "_program_for_fthenb_and_1f1b",
                          enable_send_recv_overlap |-> enable_send_recv_overlap,
                          use_new_executor |-> use_new_executor]
         /\ pipe_ret' = [status |-> r.status, programs |-> r.programs,
                         sync_status |-> r.sync_status,
                         inserted |-> r.inserted]
  /\ UNCHANGED <<slicer_vars, gc_vars, copy_vars, overlap_calls, info_vars,
               event_vars>>

NextPipe == CallProgramForFthenbAnd1f1b

SpecPipe == InitPipe /\ [][NextPipe]_vars

----------------------------------------------------------------------------
(* The overlap pass as a state machine: _overlap_send_recv is called on a  *)
(* program, and called again on the program it left.                       *)

MaxOverlapCalls == 2

(* Two more sends: a second operator on ring 0 and one on a ring with a    *)
(* two-digit id.                                                           *)
OverlapOpDescs ==
  PipeOpDescs
    \cup { RoleOp("send_v2", <<Slot("X", <<"b">>)>>, <<>>, "Forward", 0),
           RoleOp("send_v2", <<Slot("X", <<"a">>)>>, <<>>, "Forward", 10) }

OverlapOpLists == UNION { [1..n -> OverlapOpDescs] : n \in 0..MaxPipeOps }

OverlapPrograms ==
  { [blocks |-> <<Block(-1, GcDecls, o)>>] : o \in OverlapOpLists }
    \cup NestedPipePrograms

InitOverlap ==
  /\ program = NoProgram
  /\ call = NoCall
  /\ ret = NoRet
  /\ num_micro_batches = 0
  /\ sub_programs = <<>>
  /\ jobs = <<>>
  /\ gc_ret = NoGcRet
  /\ src_program = NoProgram
  /\ dst_block = NoBlock
  /\ copy_log = <<>>
  /\ pipe_program \in OverlapPrograms
  /\ pipe_call = NoPipeCall
  /\ pipe_ret = NoPipeRet
  /\ overlap_calls = 0
  /\ op_info = OpInOutInfo
  /\ info_op = NoOp
  /\ dist_attrs = <<>>
  /\ event_call = NoEventCall

CallOverlapSendRecv ==
  /\ overlap_calls < MaxOverlapCalls
  /\ pipe_program' = overlap_send_recv(pipe_program).program
  /\ overlap_calls' = overlap_calls + 1
  /\ UNCHANGED <<slicer_vars, gc_vars, copy_vars, pipe_call, pipe_ret,
                 info_vars, event_vars>>

NextOverlap == CallOverlapSendRecv

SpecOverlap == InitOverlap /\ [][NextOverlap]_vars

----------------------------------------------------------------------------
(* Vocabulary of the properties of the slicer, stated from the caller's    *)
(* side: the source program, the arguments passed and the value returned.  *)

SourceOps == program.blocks[1].ops

SourceDecls == { v.name : v \in program.blocks[1].vars }

OpNum == Len(SourceOps)

Reads(op) == UNION { Range(op.inputs[i].args) : i \in 1..Len(op.inputs) }

Writes(op) == UNION { Range(op.outputs[i].args) : i \in 1..Len(op.outputs) }

AllNames ==
  { v.name : v \in DeclaredVars }
    \cup UNION { Reads(d) \cup Writes(d) : d \in OpDescs }

OpsOf(p) == p.blocks[1].ops

DeclsOf(p) == { v.name : v \in p.blocks[1].vars }

Resolved(idx) == IF idx < 0 THEN idx + OpNum ELSE idx

ArgResolved ==
  [i \in 1..Len(call.op_indices) |-> Resolved(call.op_indices[i])]

BoundariesValid(b) ==
  /\ \A i \in 1..Len(b) : b[i] >= 0 /\ b[i] <= OpNum
  /\ \A i \in 1..Len(b) : \A j \in 1..Len(b) : i < j => b[i] < b[j]

(* b with 0 in front and op_count at the end when they are not there *)
Normalized(b) ==
  (IF b[1] # 0 THEN <<0>> ELSE <<>>) \o b
    \o (IF b[Len(b)] # OpNum THEN <<OpNum>> ELSE <<>>)

SplitDone == call.fn = "split_program"

SplitOk == SplitDone /\ ret.status = "ok"

PruneDone == call.fn = "prune_program"

NumSplit == Len(ret.programs)

RECURSIVE ConcatOps(_)
ConcatOps(progs) ==
  IF progs = <<>> THEN <<>> ELSE OpsOf(Head(progs)) \o ConcatOps(Tail(progs))

InputsOf(k) == Range(ret.input_vars[k])

ValidOf(k) == Range(ret.valid_output_vars[k])

WrittenBy(k) ==
  UNION { Writes(OpsOf(ret.programs[k])[i]) :
            i \in 1..Len(OpsOf(ret.programs[k])) }

ReadBy(k) ==
  UNION { Reads(OpsOf(ret.programs[k])[i]) :
            i \in 1..Len(OpsOf(ret.programs[k])) }

----------------------------------------------------------------------------
(* C1: split round trip.  Whenever split_program returns, the operators of *)
(* the returned sub-programs, concatenated in list order, are exactly the  *)
(* operator sequence of the source program, which is also the operator     *)
(* sequence of prune_program(P, 0, op_count); and it does return for every *)
(* program with an operator and every non-empty boundary list whose        *)
(* resolved indices lie in [0, op_count] and strictly increase.            *)
C1_SplitRoundTrip ==
  SplitDone =>
    /\ (OpNum >= 1 /\ call.op_indices # <<>> /\ BoundariesValid(ArgResolved))
         => ret.status = "ok"
    /\ ret.status = "ok" =>
         /\ ConcatOps(ret.programs) = SourceOps
         /\ ConcatOps(ret.programs)
              = OpsOf(prune_program(program, 0, OpNum).program)

(* a split into three non-empty parts of a program of distinct operators *)
C1_Witness ==
  /\ SplitOk
  /\ NumSplit = 3
  /\ OpNum = 3
  /\ SourceOps[1] # SourceOps[2]
  /\ SourceOps[2] # SourceOps[3]
  /\ call.op_indices[1] < 0

(* C2 as amended: when split_program returns, it returns len(normalized)-1 *)
(* sub-programs, the k-th holding exactly the operators with source index  *)
(* in [b_k, b_k+1) of the normalized list; and for a non-empty boundary    *)
(* list, writing the leading 0 and the trailing op_count explicitly gives  *)
(* the same result as leaving them out.                                    *)
C2_SplitParts ==
  SplitDone =>
    /\ ret.status = "ok" =>
         LET nb == Normalized(ArgResolved)
         IN /\ NumSplit = Len(nb) - 1
            /\ \A k \in 1..NumSplit :
                 OpsOf(ret.programs[k]) = SubSeq(SourceOps, nb[k] + 1, nb[k + 1])
    /\ call.op_indices # <<>> =>
         LET b    == call.op_indices
             lead == IF ArgResolved[1] # 0 THEN <<0>> ELSE <<>>
             trail == IF ArgResolved[Len(b)] # OpNum THEN <<OpNum>> ELSE <<>>
         IN /\ split_program(program, lead \o b) = ret
            /\ split_program(program, b \o trail) = ret
            /\ split_program(program, lead \o b \o trail) = ret

(* the docstring's example at scale: 3 operators cut at [1, 2] *)
C2_Witness ==
  /\ SplitOk
  /\ OpNum = 3
  /\ call.op_indices = <<1, 2>>
  /\ NumSplit = 3
  /\ \A k \in 1..3 : Len(OpsOf(ret.programs[k])) = 1

(* C2 as first stated: for every boundary list, the empty one included,    *)
(* the result is the result for the list with 0 and op_count written out.  *)
C2_AsStated ==
  SplitDone =>
    LET b     == call.op_indices
        lead  == IF b = <<>> \/ ArgResolved[1] # 0 THEN <<0>> ELSE <<>>
        trail == IF b = <<>> \/ ArgResolved[Len(b)] # OpNum THEN <<OpNum>>
                 ELSE <<>>
    IN split_program(program, lead \o b \o trail) = ret

(* C3: split_program fails, with no sub-program built and nothing          *)
(* returned, whenever the boundary list is empty, the program has no       *)
(* operator, or the resolved boundaries are not strictly increasing        *)
(* indices of [0, op_count].                                               *)
BoundariesInvalid ==
  \/ call.op_indices = <<>>
  \/ OpNum = 0
  \/ ~BoundariesValid(ArgResolved)

C3_SplitRejects ==
  (SplitDone /\ BoundariesInvalid) =>
    /\ ret.status = "AssertionError"
    /\ ret.programs = <<>>
    /\ ret.input_vars = <<>>
    /\ ret.valid_output_vars = <<>>

(* a duplicate boundary inside the range of a program with operators *)
C3_Witness ==
  /\ SplitDone
  /\ OpNum = 3
  /\ call.op_indices = <<1, 1>>
  /\ ret.status = "AssertionError"

(* C4: prune_program returns the operators with index in [start, end) of   *)
(* the source, in order, and of the source's declarations exactly those    *)
(* named as an input or output of a retained operator.                     *)
C4_PruneResult ==
  (PruneDone /\ ret.status = "ok") =>
    LET s    == Resolved(call.start_op_idx)
        e    == Resolved(call.end_op_idx)
        kept == SubSeq(SourceOps, s + 1, e)
    IN /\ OpsOf(ret.programs[1]) = kept
       /\ ret.programs[1].blocks[1].vars =
            { v \in program.blocks[1].vars :
                \E i \in 1..Len(kept) :
                  v.name \in Reads(kept[i]) \cup Writes(kept[i]) }

(* an inner range given with a negative end, dropping a declaration that   *)
(* an operator outside the range references                                *)
C4_Witness ==
  /\ PruneDone
  /\ ret.status = "ok"
  /\ call.start_op_idx > 0
  /\ call.end_op_idx < 0
  /\ "z" \in Writes(SourceOps[1])
  /\ "z" \in SourceDecls
  /\ "x" \in DeclsOf(ret.programs[1])
  /\ "z" \notin DeclsOf(ret.programs[1])

(* C5: prune_program fails, returning no program, exactly when after       *)
(* resolving negative indices start >= end or a bound is outside           *)
(* [0, op_count].                                                          *)
C5_PruneRejects ==
  PruneDone =>
    LET s == Resolved(call.start_op_idx)
        e == Resolved(call.end_op_idx)
        bad == s >= e \/ s < 0 \/ s > OpNum \/ e < 0 \/ e > OpNum
    IN /\ bad <=> ret.status = "AssertionError"
       /\ ~bad <=> ret.status = "ok"
       /\ bad => ret.programs = <<>>

(* both bounds in range, start not below end *)
C5_Witness ==
  /\ PruneDone
  /\ ret.status = "AssertionError"
  /\ call.start_op_idx = 2
  /\ call.end_op_idx = -2
  /\ OpNum = 3

(* the last operator index as end bound is accepted *)
C5_WitnessAccept ==
  /\ PruneDone
  /\ ret.status = "ok"
  /\ Resolved(call.end_op_idx) = OpNum

(* C6 as amended: every valid output of a sub-program other than the last  *)
(* is an input name of a later sub-program, and none is superfluous: each  *)
(* name x in the valid outputs of i has a later reader r with x as input   *)
(* for which i is the nearest earlier sub-program writing x, so removing x *)
(* leaves r without x from its nearest writer.                             *)
C6_ValidOutputsNeeded ==
  SplitOk =>
    \A i \in 1..(NumSplit - 1) : \A x \in ValidOf(i) :
      /\ \E j \in (i + 1)..NumSplit : x \in InputsOf(j)
      /\ x \in WrittenBy(i)
      /\ \E r \in (i + 1)..NumSplit :
           /\ x \in InputsOf(r)
           /\ \A k \in (i + 1)..(r - 1) : x \notin WrittenBy(k)

(* a name handed on by two sub-programs in a row *)
C6_Witness ==
  /\ SplitOk
  /\ NumSplit = 3
  /\ "x" \in ValidOf(1)
  /\ "x" \in ValidOf(2)
  /\ "x" \in InputsOf(3)

(* C6 as first stated: removing any name x from the valid outputs of i     *)
(* leaves a later sub-program with the input x that no earlier             *)
(* sub-program's valid outputs supply.                                     *)
C6_AsStated ==
  SplitOk =>
    \A i \in 1..(NumSplit - 1) : \A x \in ValidOf(i) :
      /\ \E j \in (i + 1)..NumSplit : x \in InputsOf(j)
      /\ \E r \in (i + 1)..NumSplit :
           /\ x \in InputsOf(r)
           /\ \A k \in 1..(r - 1) : k # i => x \notin ValidOf(k)

(* C7: nearest-writer attribution.  For a sub-program j other than the     *)
(* last, x is a valid output of j exactly when j writes x and some later   *)
(* sub-program r has x as an input name with no sub-program strictly       *)
(* between j and r writing x; and a sub-program that neither reads nor     *)
(* writes x has x neither in its inputs nor in its valid outputs.          *)
C7_NearestWriter ==
  SplitOk =>
    /\ \A j \in 1..(NumSplit - 1) : \A x \in AllNames :
         x \in ValidOf(j) <=>
           /\ x \in WrittenBy(j)
           /\ \E r \in (j + 1)..NumSplit :
                /\ x \in InputsOf(r)
                /\ \A k \in (j + 1)..(r - 1) : x \notin WrittenBy(k)
    /\ \A j \in 1..NumSplit : \A x \in AllNames :
         (x \notin ReadBy(j) /\ x \notin WrittenBy(j)) =>
           (x \notin InputsOf(j) /\ x \notin ValidOf(j))

(* sub-program 0 writes x, sub-program 2 reads x, sub-program 1 does not   *)
(* touch x                                                                 *)
C7_Witness ==
  /\ SplitOk
  /\ NumSplit = 3
  /\ "x" \in WrittenBy(1)
  /\ "x" \notin ReadBy(2) /\ "x" \notin WrittenBy(2)
  /\ "x" \in InputsOf(3)
  /\ "x" \in ValidOf(1)
  /\ "x" \notin InputsOf(2) /\ "x" \notin ValidOf(2)

----------------------------------------------------------------------------
(* Vocabulary of the properties of the liveness scheduler.  Job positions  *)
(* are sequence positions (job_id + 1).                                    *)

GcDone == gc_ret.status # "none"

GcOk == gc_ret.status = "ok"

Required(t) == gc_ret.type_to_required_vars[t]

Assigned == { gc_ret.assigned[i] + 1 : i \in 1..Len(gc_ret.assigned) }

LaterOnSameBatch(k) ==
  { j \in (k + 1)..Len(jobs) : jobs[j].micro_batch_id = jobs[k].micro_batch_id }

NeededLater(k) == UNION { Required(jobs[j].type) : j \in LaterOnSameBatch(k) }

BatchIdsInRange ==
  \A k \in 1..Len(jobs) : jobs[k].micro_batch_id < num_micro_batches

ExamplePrograms == <<ProgNested, ProgA, ProgB>>

(* C8: the skip-GC set assigned to the job at position k is                *)
(* required[type_k] intersected with the union of required[type_j] over    *)
(* the later positions j on the same micro-batch; a call that completes    *)
(* assigns every job.  The sequence fwd(0) fwd(1) bwd(1) bwd(0) with       *)
(* required[fwd] = required[bwd] = {a} gives {a}, {a}, {}, {}.             *)
C8_SkipGcFormula ==
  /\ GcDone =>
       /\ \A k \in Assigned :
            jobs[k].skip_gc_vars = Required(jobs[k].type) \cap NeededLater(k)
       /\ GcOk => Assigned = 1..Len(jobs)
  /\ LET r == set_skip_gc_vars(2, ExamplePrograms, ExampleJobs, FALSE)
     IN /\ r.type_to_required_vars.forward = {"a"}
        /\ r.type_to_required_vars.backward = {"a"}
        /\ r.status = "ok"
        /\ [k \in 1..4 |-> r.jobs[k].skip_gc_vars] = <<{"a"}, {"a"}, {}, {}>>

(* two forward jobs, only the first followed by a backward job on its own  *)
(* micro-batch                                                             *)
C8_Witness ==
  /\ GcOk
  /\ Len(jobs) = 3
  /\ jobs[1].type = "forward" /\ jobs[1].micro_batch_id = 0
  /\ jobs[2].type = "forward" /\ jobs[2].micro_batch_id = 1
  /\ jobs[3].type = "backward" /\ jobs[3].micro_batch_id = 0
  /\ Required("forward") = {"a"} /\ Required("backward") = {"a"}
  /\ jobs[1].skip_gc_vars = {"a"}
  /\ jobs[2].skip_gc_vars = {}
  /\ jobs[3].skip_gc_vars = {}

(* C9: liveness conservation.  When set_skip_gc_vars completes, for two    *)
(* jobs on the same micro-batch every variable required by both is in the  *)
(* skip-GC set of the earlier one.                                         *)
C9_LivenessConservation ==
  GcOk =>
    \A k \in 1..Len(jobs) : \A j \in LaterOnSameBatch(k) :
      (Required(jobs[k].type) \cap Required(jobs[j].type))
        \subseteq jobs[k].skip_gc_vars

(* a variable shared by the first and the last of three jobs of one        *)
(* micro-batch, and not required by the job between them                   *)
C9_Witness ==
  /\ GcOk
  /\ Len(jobs) = 3
  /\ \A k \in 1..3 : jobs[k].micro_batch_id = 0
  /\ "b" \in Required(jobs[1].type) \cap Required(jobs[3].type)
  /\ "b" \notin Required(jobs[2].type)
  /\ "b" \in jobs[1].skip_gc_vars

(* C10: a backward job never holds a non-empty skip-GC set, and a call in  *)
(* which a backward job would get one (a later job of its micro-batch      *)
(* shares a required variable) fails instead of completing.                *)
C10_BackwardEmpty ==
  /\ \A k \in 1..Len(jobs) :
       jobs[k].type = "backward" => jobs[k].skip_gc_vars = {}
  /\ GcDone =>
       \A k \in 1..Len(jobs) :
         (/\ jobs[k].type = "backward"
          /\ num_micro_batches >= 1
          /\ Required("backward") \cap NeededLater(k) # {})
           => /\ gc_ret.status \in {"AssertionError", "IndexError"}
              /\ k \notin Assigned

(* a backward job followed on its micro-batch by a job sharing a variable: *)
(* the call raises the assertion after assigning the later job             *)
C10_Witness ==
  /\ gc_ret.status = "AssertionError"
  /\ num_micro_batches >= 1
  /\ BatchIdsInRange
  /\ Len(jobs) = 3
  /\ jobs[2].type = "backward"
  /\ Required("backward") \cap NeededLater(2) # {}
  /\ Assigned = {3}

(* the job ids 0-based from the last job down, n of them *)
LastFirst(num_jobs, n) == [i \in 1..n |-> num_jobs - i]

(* the required variables of the jobs after position k on its micro-batch, *)
(* in the job list js                                                      *)
NeededAfter(js, k, required) ==
  UNION { required[js[j].type] :
            j \in { i \in (k + 1)..Len(js) :
                      js[i].micro_batch_id = js[k].micro_batch_id } }

(* C11 as amended: a failing set_skip_gc_vars changes no sub-program and   *)
(* leaves the job it fails at and every job before it as they were; the    *)
(* jobs after the failing one, and only they, have been assigned, last job *)
(* first.  With num_micro_batches < 1 no job is assigned; a failure of the *)
(* backward check happens at a backward job whose set would be non-empty.  *)
C11_FailureKeepsPrefix ==
  [][ gc_ret'.status \notin {"none", "ok"} =>
        LET n == Len(gc_ret'.assigned)
            f == Len(jobs) - n
        IN /\ Len(jobs') = Len(jobs)
           /\ sub_programs' = sub_programs
           /\ gc_ret'.assigned = LastFirst(Len(jobs), n)
           /\ \A k \in 1..f : jobs'[k] = jobs[k]
           /\ num_micro_batches < 1 => n = 0
           /\ num_micro_batches >= 1 =>
                /\ f >= 1
                /\ gc_ret'.status = "AssertionError" =>
                     /\ jobs[f].type = "backward"
                     /\ gc_ret'.type_to_required_vars.backward
                          \cap NeededAfter(jobs, f, gc_ret'.type_to_required_vars)
                            # {} ]_vars

(* the backward check fails at the first job after the two later jobs were *)
(* assigned, one of them a non-empty set                                   *)
C11_Witness ==
  /\ gc_ret.status = "AssertionError"
  /\ num_micro_batches >= 1
  /\ Len(jobs) = 3
  /\ gc_ret.assigned = <<2, 1>>
  /\ jobs[1].type = "backward"
  /\ jobs[2].skip_gc_vars # {}

(* C11 as first stated: when set_skip_gc_vars fails on the backward check  *)
(* or on num_micro_batches < 1, no job has been assigned by the call and   *)
(* every job's skip-GC set is as before the call.                          *)
C11_AsStated ==
  [][ gc_ret'.status = "AssertionError" =>
        (gc_ret'.assigned = <<>> /\ jobs' = jobs) ]_vars

(* C12: in a call of set_skip_gc_vars that completes, every job is         *)
(* assigned exactly once, the last job first and the first job last, only  *)
(* its skip-GC set changes, and the set it holds when the call returns is  *)
(* the one the sweep gave it, whether or not the trailing                  *)
(* prepare_ir_program step runs.                                           *)
C12_AssignedOnceInReverse ==
  [][ gc_ret'.status = "ok" =>
        /\ gc_ret'.assigned = LastFirst(Len(jobs), Len(jobs))
        /\ Len(jobs') = Len(jobs)
        /\ \A k \in 1..Len(jobs) :
             /\ jobs'[k].type = jobs[k].type
             /\ jobs'[k].micro_batch_id = jobs[k].micro_batch_id
             /\ jobs'[k].skip_gc_vars =
                  gc_ret'.type_to_required_vars[jobs[k].type]
                    \cap NeededAfter(jobs, k, gc_ret'.type_to_required_vars)
        /\ \A enable_pir \in BOOLEAN :
             set_skip_gc_vars(num_micro_batches, sub_programs, jobs,
                              enable_pir).jobs = jobs' ]_vars

(* three jobs assigned last to first, the first a non-empty set, in a call *)
(* whose trailing step appended a shadow_output operator to the forward    *)
(* sub-program                                                             *)
C12_Witness ==
  /\ GcOk
  /\ Len(jobs) = 3
  /\ gc_ret.assigned = <<2, 1, 0>>
  /\ jobs[1].skip_gc_vars # {}
  /\ \E i \in 1..Len(sub_programs[1].blocks[1].ops) :
       sub_programs[1].blocks[1].ops[i].type = "shadow_output"

(* the jobs of js on micro-batch m, in order *)
OnBatch(js, m) ==
  LET own(j) == j.micro_batch_id = m IN SelectSeq(js, own)

----------------------------------------------------------------------------
(* Vocabulary of the properties of the re-materializer. *)

LastCopy(log) == log[Len(log)]

CopiedOp(c) == src_program.blocks[c.block_idx + 1].ops[c.op_idx + 1]

SameOpTwice(log) ==
  /\ Len(log) >= 2
  /\ log[Len(log)].block_idx = log[Len(log) - 1].block_idx
  /\ log[Len(log)].op_idx = log[Len(log) - 1].op_idx

(* the declaration _create_program copies for a name, {} when it skips it *)
SourceDecl(c, n) ==
  IF c.force_create THEN find_var_recursive(src_program, c.block_idx, n)
  ELSE { v \in src_program.blocks[c.block_idx + 1].vars : v.name = n }

Unresolved(c, n) == find_var_recursive(src_program, c.block_idx, n) = {}

(* C14 as amended: copying the same operator twice leaves two copies of it *)
(* at the end of the destination and exactly one declaration for each      *)
(* referenced name the source declares, equal to the source's              *)
(* declaration unless the name was declared before; the second invocation  *)
(* adds one operator and, unless it is the first with force_create, no     *)
(* declaration.                                                            *)
C14_CopyTwice ==
  [][ SameOpTwice(copy_log') =>
        LET c  == LastCopy(copy_log')
            op == CopiedOp(c)
            n2 == Len(dst_block'.ops)
        IN /\ dst_block'.ops = Append(dst_block.ops, op)
           /\ dst_block'.ops[n2] = op /\ dst_block'.ops[n2 - 1] = op
           /\ (c.force_create => copy_log'[Len(copy_log') - 1].force_create)
                => dst_block'.vars = dst_block.vars
           /\ \A n \in Reads(op) \cup Writes(op) :
                SourceDecl(c, n) # {} =>
                  /\ Cardinality({ v \in dst_block'.vars : v.name = n }) = 1
                  /\ ~has_var(dst_block, n) =>
                       SourceDecl(c, n) \subseteq dst_block'.vars ]_vars

(* the same three-name operator copied twice into an empty block *)
C14_Witness ==
  /\ Len(copy_log) = 2
  /\ copy_log[1] = copy_log[2]
  /\ Len(dst_block.ops) = 2
  /\ dst_block.ops[1] = dst_block.ops[2]
  /\ dst_block.ops[1].type = "matmul"
  /\ { v.name : v \in dst_block.vars } = {"a", "b", "w"}
  /\ Cardinality(dst_block.vars) = 3

(* C14 as first stated: the second copy of the same operator adds no       *)
(* operator and no declaration to the destination.                         *)
C14_AsStated ==
  [][ (SameOpTwice(copy_log')
         /\ LastCopy(copy_log') = copy_log'[Len(copy_log') - 1])
        => dst_block' = dst_block ]_vars

----------------------------------------------------------------------------
(* every name an operator of p references is declared in the operator's   *)
(* block or in an ancestor block                                           *)
WellDeclared(p) ==
  \A b \in 1..Len(p.blocks) : \A i \in 1..Len(p.blocks[b].ops) :
    \A n \in Reads(p.blocks[b].ops[i]) \cup Writes(p.blocks[b].ops[i]) :
      find_var_recursive(p, b - 1, n) # {}

(* every declaration of p is for a name some operator of p references *)
NothingSuperfluous(p) ==
  \A b \in 1..Len(p.blocks) : \A v \in p.blocks[b].vars :
    \E c \in 1..Len(p.blocks) : \E i \in 1..Len(p.blocks[c].ops) :
      v.name \in Reads(p.blocks[c].ops[i]) \cup Writes(p.blocks[c].ops[i])

(* C15: a sub-program returned by prune_program or split_program for a     *)
(* source program whose references are all declared has no dangling        *)
(* reference, every referenced name being declared in the operator's block *)
(* or an ancestor block of the sub-program, and no declaration for a name  *)
(* that no retained operator references.                                   *)
C15_NoDanglingReference ==
  (call.fn # "none" /\ ret.status = "ok" /\ WellDeclared(program)) =>
    \A k \in 1..Len(ret.programs) :
      /\ WellDeclared(ret.programs[k])
      /\ NothingSuperfluous(ret.programs[k])

(* the same on source programs of one block *)
SingleBlockNoDangling ==
  (call.fn # "none" /\ ret.status = "ok" /\ WellDeclared(program)
     /\ Len(program.blocks) = 1) =>
    \A k \in 1..Len(ret.programs) :
      /\ WellDeclared(ret.programs[k])
      /\ NothingSuperfluous(ret.programs[k])

----------------------------------------------------------------------------
(* Vocabulary of the properties of the role partition and its passes.      *)
(* pipe_program is the program argument, which the pass mutates in place.  *)

PipeDone == pipe_call.fn # "none"

RECURSIVE AllOps(_)
AllOps(blocks) ==
  IF blocks = <<>> THEN <<>> ELSE Head(blocks).ops \o AllOps(Tail(blocks))

SyncTypes == {"c_sync_calc_stream", "c_sync_comm_stream", "nop"}

RoleNames == <<"Forward", "Backward", "Optimize">>

(* the non-fetch operators of the given role, in order *)
OfRole(ops, role) ==
  LET keep(op) == op.type \notin {"fetch", "fetch_v2"} /\ op.op_role = role
  IN SelectSeq(ops, keep)

NonFetch(ops) ==
  LET keep(op) == op.type \notin {"fetch", "fetch_v2"} IN SelectSeq(ops, keep)

(* the operator types, leaving out the operators a pass inserted *)
OriginalTypes(ops) ==
  LET keep(op) == op.type \notin SyncTypes
      orig == SelectSeq(ops, keep)
  IN [i \in 1..Len(orig) |-> orig[i].type]

HasOtherRole(ops) ==
  \E i \in 1..Len(ops) :
    /\ ops[i].type \notin {"fetch", "fetch_v2"}
    /\ ops[i].op_role \notin {"Forward", "Backward", "Optimize"}

C18_OneStrategy ==
  [][ pipe_call'.fn # "none" =>
        LET before == pipe_program.blocks
            after  == pipe_program'.blocks
            out    == AllOps(after)
                        \o (IF pipe_ret'.status = "ok"
                            THEN AllOps(pipe_ret'.programs[1].blocks)
                                   \o AllOps(pipe_ret'.programs[2].blocks)
                                   \o AllOps(pipe_ret'.programs[3].blocks)
                            ELSE <<>>)
        IN /\ Len(after) = Len(before)
           /\ pipe_call'.enable_send_recv_overlap =>
                /\ \A b \in 1..Len(before) :
                     /\ Len(after[b].ops) = Len(before[b].ops)
                     /\ \A i \in 1..Len(before[b].ops) :
                          after[b].ops[i].type = before[b].ops[i].type
                /\ \A i \in 1..Len(out) :
                     /\ out[i].type \notin SyncTypes
                     /\ out[i].type \in {"send_v2", "recv_v2"} =>
                          (out[i].execution_stream # <<>>
                             /\ out[i].stream_priority = 0
                             /\ out[i].use_calc_stream)
           /\ ~pipe_call'.enable_send_recv_overlap =>
                \A i \in 1..Len(out) :
                  /\ out[i].execution_stream = <<>>
                  /\ out[i].stream_priority = -1
                  /\ (pipe_ret'.sync_status = "ok" /\ out[i].type = "send_v2")
                       => ~out[i].use_calc_stream ]_vars

(* overlap enabled on a block of a send, a receive and another send: three *)
(* operators before and after, each on its stream                          *)
C18_Witness ==
  /\ PipeDone
  /\ pipe_call.enable_send_recv_overlap
  /\ Len(pipe_program.blocks[1].ops) = 3
  /\ pipe_program.blocks[1].ops[1].execution_stream = <<"send_stream_", "0">>
  /\ pipe_program.blocks[1].ops[2].execution_stream = <<"recv_stream">>
  /\ pipe_program.blocks[1].ops[3].execution_stream = <<"send_stream_", "1">>

BarrierDone ==
  /\ PipeDone
  /\ ~pipe_call.enable_send_recv_overlap
  /\ pipe_ret.sync_status = "ok"

(* C19: after the explicit-barrier pass every send_v2 of every block has   *)
(* use_calc_stream false and is immediately preceded by a                  *)
(* c_sync_calc_stream operator on its first input, with its role.          *)
C19_CalcSyncBeforeSend ==
  BarrierDone =>
    \A b \in 1..Len(pipe_program.blocks) :
      LET ops == pipe_program.blocks[b].ops
      IN \A i \in 1..Len(ops) :
           ops[i].type = "send_v2" =>
             /\ ~ops[i].use_calc_stream
             /\ i > 1
             /\ ops[i - 1].type = "c_sync_calc_stream"
             /\ input_arg_names(ops[i - 1]) = <<input_arg_names(ops[i])[1]>>
             /\ ops[i - 1].op_role = ops[i].op_role

IsCommFor(op, send) ==
  /\ op.type = "c_sync_comm_stream"
  /\ input_arg_names(op) = <<input_arg_names(send)[1]>>
  /\ op.ring_id = send.ring_id

(* C20: in the block as the insertion loop of the explicit-barrier pass    *)
(* leaves it, there is one c_sync_comm_stream per send_v2 (same variable,  *)
(* same ring); the one of a forward send is the operator right after the   *)
(* send; the one of a backward send comes after the send and before the    *)
(* first optimize operator of the block, with only inserted                *)
(* c_sync_comm_stream operators between the two; and the pass fails on a   *)
(* block with a backward send and no optimize operator.                    *)
C20_CommSyncPlacement ==
  (PipeDone /\ ~pipe_call.enable_send_recv_overlap) =>
    \A b \in 1..Len(pipe_ret.inserted) :
      LET ops   == pipe_ret.inserted[b]
          sends == { i \in 1..Len(ops) : ops[i].type = "send_v2" }
          opts  == { i \in 1..Len(ops) :
                       ops[i].op_role = "Optimize" /\ ops[i].type \notin SyncTypes }
      IN /\ (opts = {} /\ \E i \in sends : ops[i].op_role = "Backward")
              => pipe_ret.sync_status # "ok"
         /\ pipe_ret.sync_status = "ok" =>
              /\ \A i \in sends :
                   Cardinality({ j \in 1..Len(ops) : IsCommFor(ops[j], ops[i]) })
                     = Cardinality({ j \in sends : ops[j].ring_id = ops[i].ring_id
                                      /\ input_arg_names(ops[j])[1]
                                           = input_arg_names(ops[i])[1] })
              /\ \A i \in sends :
                   ops[i].op_role = "Forward" =>
                     (i < Len(ops) /\ IsCommFor(ops[i + 1], ops[i]))
              /\ \A i \in sends :
                   ops[i].op_role = "Backward" =>
                     LET first == CHOOSE o \in opts : \A q \in opts : o <= q
                     IN \E j \in (i + 1)..(first - 1) :
                          /\ IsCommFor(ops[j], ops[i])
                          /\ \A m \in j..(first - 1) :
                               ops[m].type = "c_sync_comm_stream"

----------------------------------------------------------------------------
(* Claims about the reported input and output names *)

(* the 1-based positions of the operators of ops that read, write n *)
ReadersOf(ops, n) == { i \in 1..Len(ops) : n \in Reads(ops[i]) }

WritersOf(ops, n) == { i \in 1..Len(ops) : n \in Writes(ops[i]) }

FirstOf(S) == CHOOSE i \in S : \A j \in S : i <= j

(* n's first occurrence in ops is as an operator input *)
FirstTouchIsRead(ops, n) ==
  /\ ReadersOf(ops, n) # {}
  /\ \A w \in WritersOf(ops, n) : FirstOf(ReadersOf(ops, n)) <= w

(* position of n's first occurrence in a list of names *)
PosIn(names, n) == FirstOf({ i \in 1..Len(names) : names[i] = n })

NoDuplicates(list) ==
  \A i, j \in 1..Len(list) : list[i] = list[j] => i = j

(* a is read for the first time before b is *)
ReadBefore(ops, a, b) ==
  LET ra == FirstOf(ReadersOf(ops, a))
      rb == FirstOf(ReadersOf(ops, b))
  IN \/ ra < rb
     \/ /\ ra = rb
        /\ PosIn(input_arg_names(ops[ra]), a) < PosIn(input_arg_names(ops[ra]), b)

(* C23: the input names reported for a sub-program are exactly the names   *)
(* whose first occurrence in its operator sequence is as an operator input *)
(* (an operator that reads and writes the name counts as a read), each     *)
(* once, in order of first read.                                           *)
C23_InputNames ==
  SplitOk =>
    \A k \in 1..NumSplit :
      LET ops  == OpsOf(ret.programs[k])
          list == ret.input_vars[k]
      IN /\ NoDuplicates(list)
         /\ Range(list) = { n \in AllNames : FirstTouchIsRead(ops, n) }
         /\ \A i, j \in 1..Len(list) :
              i < j => ReadBefore(ops, list[i], list[j])

(* a sub-program whose first operator reads and writes x, in which y is    *)
(* written before it is read, and x is read again later                    *)
C23_Witness ==
  /\ SplitOk
  /\ \E k \in 1..NumSplit :
       LET ops == OpsOf(ret.programs[k])
       IN /\ Len(ops) = 3
          /\ ops[1].type = "incr" /\ ops[2].type = "relu" /\ ops[3].type = "add"
          /\ ret.input_vars[k] = <<"x">>

(* C24: the valid outputs of the last sub-program are its raw output       *)
(* names: every name one of its operators writes, once, in first-write     *)
(* order, read or not.                                                     *)
C24_LastOutputsRaw ==
  SplitOk =>
    LET ops  == OpsOf(ret.programs[NumSplit])
        list == ret.valid_output_vars[NumSplit]
    IN /\ NoDuplicates(list)
       /\ Range(list) = { n \in AllNames : WritersOf(ops, n) # {} }
       /\ \A i, j \in 1..Len(list) :
            i < j =>
              LET wi == FirstOf(WritersOf(ops, list[i]))
                  wj == FirstOf(WritersOf(ops, list[j]))
              IN \/ wi < wj
                 \/ /\ wi = wj
                    /\ PosIn(output_arg_names(ops[wi]), list[i])
                         < PosIn(output_arg_names(ops[wi]), list[j])

(* the last sub-program writes x twice and then z and "@EMPTY@", which     *)
(* nothing reads                                                           *)
C24_Witness ==
  /\ SplitOk
  /\ NumSplit >= 2
  /\ LET ops == OpsOf(ret.programs[NumSplit])
     IN /\ Len(ops) = 2
        /\ ops[1].type = "incr" /\ ops[2].type = "add"
  /\ ret.valid_output_vars[NumSplit] = <<"x", "z", "@EMPTY@">>

(* C28: prune_program and split_program never modify their arguments:      *)
(* across either call, returning or raising, the caller's program keeps    *)
(* its operators and declarations and the caller's boundary list is as it  *)
(* was passed.                                                             *)
C28_ArgumentsUntouched ==
  [][ call'.fn \in {"prune_program", "split_program"} =>
        /\ program' = program
        /\ call'.fn = "split_program" =>
             call'.caller_op_indices = call'.op_indices ]_vars

(* a split that removed operators and declarations from what it returns,   *)
(* given a list that starts with 0 and lacks the operator count, so that   *)
(* the count was appended to the list named op_indices                     *)
C28_Witness ==
  /\ SplitOk
  /\ NumSplit = 2
  /\ call.op_indices = <<0, 1>>
  /\ OpNum = 3
  /\ call.caller_op_indices = <<0, 1>>
  /\ OpsOf(ret.programs[1]) # SourceOps
  /\ DeclsOf(ret.programs[1]) # SourceDecls

----------------------------------------------------------------------------
(* Claims about OpInOutInfo *)

(* the slots of op, inputs and outputs, that the registry does not list *)
OrdinarySlots(op) ==
  { sl \in Range(op.inputs) \cup Range(op.outputs) :
      sl.slot \notin infer_no_need_buffer_slots(op) }

(* C26: after build_info(op) on a new object, is_needed(name) is true for  *)
(* every name when the registry lists no no-need-buffer slot for op, and   *)
(* otherwise exactly for the names in at least one input or output slot    *)
(* of op that is not listed.                                               *)
C26_NeededNames ==
  info_op # NoOp =>
    \A name \in InfoNames \cup {"@EMPTY@"} :
      is_needed(op_info, name) <=>
        \/ infer_no_need_buffer_slots(info_op) = {}
        \/ \E sl \in OrdinarySlots(info_op) : name \in Range(sl.args)

(* add_grad with a in the listed slot X and in the ordinary slot Y, b in   *)
(* the output slot, w referenced nowhere                                   *)
C26_Witness ==
  /\ info_op.type = "add_grad"
  /\ info_op.inputs = <<Slot("X", <<"a">>), Slot("Y", <<"a">>)>>
  /\ info_op.outputs = <<Slot("Out", <<"b">>)>>
  /\ op_info.is_build
  /\ is_needed(op_info, "a")
  /\ is_needed(op_info, "b")
  /\ ~is_needed(op_info, "w")

----------------------------------------------------------------------------
(* Claims about the required-variable sets *)

OpaqueTypes == {"c_sync_comm_stream", "conditional_block", "nop", "while"}

(* n resolves, from block b (1-based position) of p through its ancestors, *)
(* to a declaration that is not persistable                                *)
ResolvesNonPersistable(p, b, n) ==
  \E v \in find_var_recursive(p, b - 1, n) : ~v.persistable

(* n is load-bearing for op: the registry lists no slot of op, or n is in  *)
(* a slot of op that is not listed                                         *)
LoadBearing(op, n) ==
  \/ infer_no_need_buffer_slots(op) = {}
  \/ \E sl \in OrdinarySlots(op) : n \in Range(sl.args)

RequiredNames(p) ==
  { n \in {"a", "b", "w", "@EMPTY@"} :
      \E b \in 1..Len(p.blocks) : \E i \in 1..Len(p.blocks[b].ops) :
        LET op == p.blocks[b].ops[i]
        IN /\ op.type \notin OpaqueTypes
           /\ n \in Reads(op) \cup Writes(op)
           /\ ResolvesNonPersistable(p, b, n)
           /\ LoadBearing(op, n) }

(* the persistable, the undeclared and the names only opaque operators     *)
(* reference in p                                                          *)
NeverRequired(p) ==
  { n \in {"a", "b", "w", "@EMPTY@"} :
      \/ \A b \in 1..Len(p.blocks) : ~ResolvesNonPersistable(p, b, n)
      \/ \A b \in 1..Len(p.blocks) : \A i \in 1..Len(p.blocks[b].ops) :
           n \in Reads(p.blocks[b].ops[i]) \cup Writes(p.blocks[b].ops[i])
             => p.blocks[b].ops[i].type \in OpaqueTypes }

(* C25: the required-variable set of a job type is the set of names that   *)
(* some operator of its sub-program, in any block and not of the four      *)
(* opaque types, references, that resolve from that block to a             *)
(* non-persistable declaration and are load-bearing for the operator; no   *)
(* persistable, undeclared or opaquely referenced name is in a skip-GC set.*)
C25_RequiredVars ==
  [][ (gc_ret'.status # "none" /\ num_micro_batches >= 1) =>
        /\ \A t \in Range(job_types) :
             gc_ret'.type_to_required_vars[t]
               = RequiredNames(type_to_program(sub_programs)[t])
        /\ \A k \in 1..Len(jobs') :
             jobs'[k].skip_gc_vars
               \cap NeverRequired(type_to_program(sub_programs)[jobs'[k].type])
               = {} ]_vars

(* forward requires a through a sub-block while b is touched by a          *)
(* conditional_block only; backward requires b while a is read through a   *)
(* no-need-buffer slot and by a nop; a job received a skip-GC set          *)
C25_Witness ==
  /\ GcOk
  /\ sub_programs = <<ProgNested, ProgB, ProgB>>
  /\ Required("forward") = {"a"}
  /\ Required("backward") = {"b"}
  /\ \E k \in 1..Len(jobs) : jobs[k].skip_gc_vars = {"b"}

----------------------------------------------------------------------------
(* Claims about the overlap pass *)

(* the number a sequence of decimal digits denotes; -1 when a piece is no  *)
(* digit or the sequence is empty                                          *)
RECURSIVE DecimalValue(_)
DecimalValue(pieces) ==
  IF pieces = <<>> \/ ~Contains(Digits, pieces[Len(pieces)]) THEN -1
  ELSE LET last == (CHOOSE k \in 1..10 : Digits[k] = pieces[Len(pieces)]) - 1
           rest == SubSeq(pieces, 1, Len(pieces) - 1)
       IN IF rest = <<>> THEN last
          ELSE IF DecimalValue(rest) < 0 THEN -1
          ELSE 10 * DecimalValue(rest) + last

(* op carries the stream name "send_stream_<ring_id>" *)
OnSendStream(op) ==
  /\ Len(op.execution_stream) >= 2
  /\ op.execution_stream[1] = "send_stream_"
  /\ DecimalValue(Tail(op.execution_stream)) = op.ring_id

Untagged(op) == [op EXCEPT !.execution_stream = <<>>, !.stream_priority = -1,
                           !.dynamic_shape = TRUE, !.use_calc_stream = TRUE]

(* C21: the overlap pass tags every send_v2 with "send_stream_<ring_id>",  *)
(* two sends sharing the name exactly when they share the ring id, and     *)
(* every recv_v2 with "recv_stream"; it changes no other operator, inserts *)
(* and removes nothing, and a second run changes nothing at all.           *)
C21_OverlapTags ==
  [][ overlap_calls' = overlap_calls + 1 =>
        /\ Len(pipe_program'.blocks) = Len(pipe_program.blocks)
        /\ \A b \in 1..Len(pipe_program.blocks) :
             LET old == pipe_program.blocks[b]
                 new == pipe_program'.blocks[b]
             IN /\ new.vars = old.vars
                /\ new.parent_idx = old.parent_idx
                /\ Len(new.ops) = Len(old.ops)
                /\ \A i \in 1..Len(old.ops) :
                     /\ old.ops[i].type \notin {"send_v2", "recv_v2"}
                          => new.ops[i] = old.ops[i]
                     /\ old.ops[i].type \in {"send_v2", "recv_v2"}
                          => Untagged(new.ops[i]) = Untagged(old.ops[i])
                     /\ old.ops[i].type = "send_v2" => OnSendStream(new.ops[i])
                     /\ old.ops[i].type = "recv_v2"
                          => new.ops[i].execution_stream = <<"recv_stream">>
        /\ \A s, t \in { op \in Range(AllOps(pipe_program'.blocks)) :
                           op.type = "send_v2" } :
             s.execution_stream = t.execution_stream <=> s.ring_id = t.ring_id
        /\ overlap_calls >= 1 => pipe_program' = pipe_program ]_vars

(* the pass has run twice on sends of ring 1 and ring 10 and a receive     *)
C21_Witness ==
  /\ overlap_calls = 2
  /\ Len(pipe_program.blocks[1].ops) = 3
  /\ pipe_program.blocks[1].ops[1].execution_stream = <<"send_stream_", "1">>
  /\ pipe_program.blocks[1].ops[2].execution_stream
       = <<"send_stream_", "1", "0">>
  /\ pipe_program.blocks[1].ops[3].execution_stream = <<"recv_stream">>

----------------------------------------------------------------------------
(* Claims about event dependencies *)

(* C22: across every _add_event_dependency(recorder, waiter) call the      *)
(* waiter's events-to-wait list keeps its entries in place, gains the      *)
(* recorder's event name at the end when it was absent and nothing         *)
(* otherwise, no list ever holds a name twice, the recorder's              *)
(* force-record-event flag is true afterwards, nothing else changes, and   *)
(* the same call made again changes nothing.                               *)
C22_EventDependency ==
  [][ LET r     == event_call'.recorder
          w     == event_call'.waiter
          old   == dist_attrs[w].events_to_wait
          new   == dist_attrs'[w].events_to_wait
          event == dist_attrs[r].event_to_record
      IN /\ \A i \in EventOps : NoDuplicates(dist_attrs'[i].events_to_wait)
         /\ SubSeq(new, 1, Len(old)) = old
         /\ new = IF Contains(old, event) THEN old ELSE Append(old, event)
         /\ dist_attrs'[r].force_record_event
         /\ \A i \in EventOps :
              /\ dist_attrs'[i].event_to_record = dist_attrs[i].event_to_record
              /\ i # w => dist_attrs'[i].events_to_wait
                            = dist_attrs[i].events_to_wait
              /\ i # r => dist_attrs'[i].force_record_event
                            = dist_attrs[i].force_record_event
         /\ event_call' = event_call => dist_attrs' = dist_attrs ]_vars

(* operator 2 waits for the events of all three operators, itself         *)
(* included, of which 1 and 3 record the same name                         *)
C22_Witness ==
  /\ dist_attrs[2].events_to_wait = <<"event_1", "event_0">>
  /\ dist_attrs[1].force_record_event
  /\ dist_attrs[2].force_record_event
  /\ dist_attrs[3].force_record_event
  /\ event_call = [recorder |-> 3, waiter |-> 2]

----------------------------------------------------------------------------
(* Claims about the compaction and the frame of the explicit-barrier pass *)

Tagged(op) == op.type = "c_sync_comm_stream" /\ op.pipeline_flag

BackwardRecvs(ops) ==
  { i \in 1..Len(ops) : ops[i].type = "recv_v2" /\ ops[i].op_role = "Backward" }

(* ops without the operators at the positions in drop *)
RECURSIVE Without(_, _, _)
Without(ops, drop, i) ==
  IF i > Len(ops) THEN <<>>
  ELSE (IF i \in drop THEN <<>> ELSE <<ops[i]>>) \o Without(ops, drop, i + 1)

(* one nop per position in drop, in order, on the variable of the          *)
(* operator at that position                                               *)
RECURSIVE NopsFor(_, _, _)
NopsFor(ops, drop, i) ==
  IF i > Len(ops) THEN <<>>
  ELSE (IF i \in drop
        THEN <<RoleOp("nop", <<Slot("X", <<output_arg_names(ops[i])[1]>>)>>,
                      <<Slot("Out", <<output_arg_names(ops[i])[1]>>)>>,
                      "Backward", -1)>>
        ELSE <<>>) \o NopsFor(ops, drop, i + 1)

(* C27: compaction.  In a block with a backward recv_v2 no tagged          *)
(* c_sync_comm_stream is left before the first backward recv_v2; the       *)
(* tagged operators that preceded it, and no others, are gone and the      *)
(* rest keeps its order; under the legacy executor one nop per removed     *)
(* operator, on its variable, stands at the index the recv was found at    *)
(* and the indices before it, directly behind the recv.  A block without   *)
(* backward recv_v2 is left as the insertion loop left it.                 *)
C27_Compaction ==
  BarrierDone =>
    \A b \in 1..Len(pipe_program.blocks) :
      LET before == pipe_ret.inserted[b]
          after  == pipe_program.blocks[b].ops
      IN IF BackwardRecvs(before) = {} THEN after = before
         ELSE
           LET recv == FirstOf(BackwardRecvs(before))
               drop == { i \in 1..(recv - 1) : Tagged(before[i]) }
               k    == Cardinality(drop)
               kept == Without(before, drop, 1)
               nops == NopsFor(before, drop, 1)
           IN /\ BackwardRecvs(after) # {}
              /\ \A i \in 1..(FirstOf(BackwardRecvs(after)) - 1) :
                   ~Tagged(after[i])
              /\ SelectSeq(after, LAMBDA op : op.type # "nop") = kept
              /\ pipe_call.use_new_executor => after = kept
              /\ ~pipe_call.use_new_executor =>
                   /\ after = SubSeq(kept, 1, recv - k) \o nops
                                \o SubSeq(kept, recv - k + 1, Len(kept))
                   /\ k > 0 => after[recv].type = "nop"

(* two forward sends before a backward recv_v2 under the legacy executor:  *)
(* both completion waits were replaced                                     *)
C27_Witness ==
  /\ BarrierDone
  /\ ~pipe_call.use_new_executor
  /\ Len(pipe_program.blocks) = 1
  /\ [i \in 1..Len(pipe_program.blocks[1].ops) |->
        pipe_program.blocks[1].ops[i].type]
       = <<"c_sync_calc_stream", "send_v2", "c_sync_calc_stream", "send_v2",
           "recv_v2", "nop", "nop">>
  /\ Len(pipe_ret.inserted[1]) = 7
  /\ Tagged(pipe_ret.inserted[1][3])
  /\ Tagged(pipe_ret.inserted[1][6])

(* the operators of ops that are no synchronization operator of the given  *)
(* types, without the attributes the pass sets on send_v2 and recv_v2      *)
OriginalsOf(ops, sync_types) ==
  LET originals == SelectSeq(ops, LAMBDA op : op.type \notin sync_types)
  IN [i \in 1..Len(originals) |-> Untagged(originals[i])]

(* C29: the explicit-barrier pass only inserts.  In every block it         *)
(* visited, the operators that were there are still there, in their        *)
(* order; after the insertion loop every other operator is a               *)
(* c_sync_calc_stream or c_sync_comm_stream, after compaction one of       *)
(* those or a nop; declarations and parents are untouched.                 *)
C29_OnlyInserts ==
  [][ (pipe_call'.fn # "none" /\ ~pipe_call'.enable_send_recv_overlap) =>
        /\ Len(pipe_program'.blocks) = Len(pipe_program.blocks)
        /\ \A b \in 1..Len(pipe_program.blocks) :
             LET old == pipe_program.blocks[b]
                 new == pipe_program'.blocks[b]
             IN /\ new.vars = old.vars
                /\ new.parent_idx = old.parent_idx
                /\ OriginalsOf(new.ops, SyncTypes) = OriginalsOf(old.ops, {})
                /\ Len(new.ops) >= Len(old.ops)
                /\ b <= Len(pipe_ret'.inserted) =>
                     OriginalsOf(pipe_ret'.inserted[b],
                                 {"c_sync_calc_stream", "c_sync_comm_stream"})
                       = OriginalsOf(old.ops, {}) ]_vars

(* a forward send between two other operators, with both synchronization   *)
(* operators inserted around it                                            *)
C29_Witness ==
  /\ BarrierDone
  /\ Len(pipe_program.blocks) = 1
  /\ [i \in 1..Len(pipe_program.blocks[1].ops) |->
        pipe_program.blocks[1].ops[i].type]
       = <<"matmul", "c_sync_calc_stream", "send_v2", "c_sync_comm_stream",
           "sgd">>

----------------------------------------------------------------------------
(* Claims about the blocks of the returned programs *)

(* The source blocks (0-based indices, in order) that the k-th returned    *)
(* program has a block for: the global block and every sub-block with a    *)
(* non-fetch operator of the k-th role.  The j-th block of the returned    *)
(* program was created for the j-th of them.                               *)
SourceBlocksOf(k) ==
  LET contributes(idx) ==
        idx = 0 \/ OfRole(pipe_program.blocks[idx + 1].ops, RoleNames[k]) # <<>>
  IN SelectSeq([i \in 1..Len(pipe_program.blocks) |-> i - 1], contributes)

FetchOps(ops) == SelectSeq(ops, LAMBDA op : op.type \in {"fetch", "fetch_v2"})

(* C30: in each returned program every non-global block has a parent index *)
(* that names a block of that program, the one created for the parent of   *)
(* its source block; every fetch operator is in at most one returned       *)
(* program, in the block created for its own source block.                 *)
C30_BlockCorrespondence ==
  (PipeDone /\ pipe_ret.status = "ok") =>
    /\ \A k \in 1..3 :
         LET blocks == pipe_ret.programs[k].blocks
             source == SourceBlocksOf(k)
         IN /\ Len(blocks) = Len(source)
            /\ \A j \in 2..Len(blocks) :
                 /\ blocks[j].parent_idx >= 0
                 /\ blocks[j].parent_idx < Len(blocks)
                 /\ source[blocks[j].parent_idx + 1]
                      = pipe_program.blocks[source[j] + 1].parent_idx
            /\ \A j \in 1..Len(blocks) :
                 \A f \in Range(FetchOps(blocks[j].ops)) :
                   f \in Range(pipe_program.blocks[source[j] + 1].ops)
    /\ Len(FetchOps(AllOps(pipe_ret.programs[1].blocks)))
         + Len(FetchOps(AllOps(pipe_ret.programs[2].blocks)))
         + Len(FetchOps(AllOps(pipe_ret.programs[3].blocks)))
         <= Len(FetchOps(AllOps(pipe_program.blocks)))

(* the same statement for source programs of one block                     *)
SingleBlockCorrespondence ==
  (PipeDone /\ pipe_ret.status = "ok" /\ Len(pipe_program.blocks) = 1) =>
    C30_BlockCorrespondence

====
